---- MODULE Spec2Model ----
(***************************************************************************)
(* Annotation engine of the scene-graph viewer that generate_html_sampled  *)
(* emits: the session globals, the handlers that mutate them, the export   *)
(* document and its re-import.                                             *)
(***************************************************************************)
EXTENDS Integers, Sequences, FiniteSets, TLC

\* ------------------------------------------------------------------ bounds
MaxSim == 2         \* entries the similarity list may grow to
MaxAdded == 1       \* entries each added-entry list may grow to
MaxPending == 1     \* loadScene calls awaiting their fetch at one time
MaxFinite == 1000   \* the largest finite double, scaled down
MaxRelationships == 3  \* relationships of a scene graph whose panel is rendered
MaxVertexLines == 3 \* vertex lines of an ASCII PLY file
maxPoints == 3      \* the 200000 points a cloud is sampled down to, scaled down
MaxOverlapping == 2 \* loadScene calls awaiting their fetch at one time when calls overlap

\* ------------------------------------------------------------- JS values
NULL == "null"
UNDEFINED == "undefined"
\* null in a variable that otherwise holds an object id
NoObject == -1
\* null in sceneGraphData
NoGraph == [id |-> NULL, objects |-> << >>, relationships |-> << >>, attributes |-> << >>]
Statuses == {"correct", "incorrect"}
Modes == {NULL, "similarity", "attribute", "relationship"}
\* new Date().toISOString(): an opaque string no handler ever reads
Now == "T"

\* ------------------------------------------------------------ input data
SceneA == "scene0000_00"
SceneB == "scene_00000_00"
availableScenes == {SceneA, SceneB}

\* the parsed scene_graph.json the fetch of a scene returns
SceneGraphFile(s) ==
  IF s = SceneA
  THEN [ id |-> SceneA,
         objects |-> << [id |-> 1, labels |-> <<"chair">>],
                        [id |-> 2, labels |-> <<"chair">>],
                        [id |-> 3, labels |-> <<>>] >>,
         relationships |-> << [subject_id |-> 1, name |-> "next to", recipient_id |-> <<2>>],
                              [subject_id |-> 2, name |-> "in between", recipient_id |-> <<1, 3>>] >>,
         attributes |-> << [id |-> "a1", object_id |-> 1, name |-> "wooden", type |-> UNDEFINED],
                           [id |-> "a2", object_id |-> 2, name |-> "red", type |-> "color"] >> ]
  ELSE [ id |-> SceneB,
         objects |-> << [id |-> 0, labels |-> <<"table">>],
                        [id |-> 2, labels |-> <<"lamp">>] >>,
         relationships |-> << [subject_id |-> 2, name |-> "on top of", recipient_id |-> <<0>>] >>,
         attributes |-> << [id |-> "a2", object_id |-> 0, name |-> "rotatable", type |-> UNDEFINED] >> ]

ObjectIds == {0, 1, 2, 3}
AttrNameInputs == {"", "soft"}
PredicateInputs == {"", "near"}

\* ------------------------------------------------------------------ state
VARIABLES
  annotationMode,           \* null | 'similarity' | 'attribute' | 'relationship'
  selectedObjectId,
  sceneGraphData,
  currentSceneId,
  currentDataset,
  loading,                  \* scene ids of the loadScene calls awaiting their fetch
  similarityAnnotations,
  attributeValidations,
  additionalAttributes,
  relationshipValidations,
  additionalRelationships

\* what currentSceneId and currentDataset were when each pending loadScene call was made
\* (a history the viewer does not keep)
VARIABLE beforeLoad

\* the calls of the viewer's pure functions: each holds the arguments of one call and, once
\* the call has run, what it returned
VARIABLES
  plyCall,                  \* parsePLY -> parseBinaryPLY
  convertCall,              \* convertMultiscanToSceneGraph
  displayCall,              \* updateRelationshipsDisplay
  asciiCall,                \* parsePLY -> parseASCIIPLY
  cloudCall                 \* loadPointCloudFile -> loadPointCloud

calls == << plyCall, convertCall, displayCall, asciiCall, cloudCall >>

vars == << annotationMode, selectedObjectId, sceneGraphData, currentSceneId,
           currentDataset, loading, similarityAnnotations, attributeValidations,
           additionalAttributes, relationshipValidations, additionalRelationships,
           beforeLoad, calls >>

stores == << similarityAnnotations, attributeValidations, additionalAttributes,
             relationshipValidations, additionalRelationships >>

\* what the annotation handlers never assign
sceneVars == << sceneGraphData, currentSceneId, currentDataset, loading, beforeLoad, calls >>

EmptyMap == << >>

\* the globals as the script declares them
SessionInit ==
  /\ annotationMode = NULL
  /\ selectedObjectId = NoObject
  /\ sceneGraphData = NoGraph
  /\ currentSceneId = NULL
  /\ currentDataset = "scannet"
  /\ loading = << >>
  /\ similarityAnnotations = << >>
  /\ attributeValidations = EmptyMap
  /\ additionalAttributes = << >>
  /\ relationshipValidations = EmptyMap
  /\ additionalRelationships = << >>
  /\ beforeLoad = << >>

\* ---------------------------------------------------------------- helpers
\* Splice as it would be with pop() in place of splice(index, 1)
Splice_RemovesLast(seq, index) ==
  IF index + 1 > Len(seq) THEN seq ELSE SubSeq(seq, 1, Len(seq) - 1)

\* Array.prototype.splice(index, 1) with a 0-based index; past the end it removes nothing
Splice(seq, index) ==
  IF index + 1 > Len(seq) THEN seq
  ELSE [i \in 1..(Len(seq) - 1) |-> IF i < index + 1 THEN seq[i] ELSE seq[i + 1]]

\* sceneGraphData.objects.find(o => o.id === id): its 1-based position, 0 when undefined
FindObject(sg, id) ==
  LET hits == {i \in 1..Len(sg.objects) : sg.objects[i].id = id}
  IN IF hits = {} THEN 0 ELSE CHOOSE i \in hits : \A j \in hits : i <= j

\* obj.labels[0]
RawLabel(obj) == IF Len(obj.labels) > 0 THEN obj.labels[1] ELSE UNDEFINED

\* obj.labels[0] || `Object ${id}`
DisplayLabel(obj) ==
  IF RawLabel(obj) \in {UNDEFINED, ""} THEN "Object " \o ToString(obj.id) ELSE RawLabel(obj)

\* ExistingIndex as it would be if findIndex compared (id1, id2) in the stored order only
ExistingIndex_OneWay(anns, sel, cand) ==
  LET hits == {i \in 1..Len(anns) : anns[i].id1 = sel /\ anns[i].id2 = cand}
  IN IF hits = {} THEN 0 ELSE CHOOSE i \in hits : \A j \in hits : i <= j

\* similarityAnnotations.findIndex(...) as a 1-based position, 0 for -1
ExistingIndex(anns, sel, cand) ==
  LET hits == {i \in 1..Len(anns) :
                 \/ (anns[i].id1 = sel /\ anns[i].id2 = cand)
                 \/ (anns[i].id2 = sel /\ anns[i].id1 = cand)}
  IN IF hits = {} THEN 0 ELSE CHOOSE i \in hits : \A j \in hits : i <= j

NewAnnotation(sg, sel, cand) ==
  LET obj1 == sg.objects[FindObject(sg, sel)]
      obj2 == sg.objects[FindObject(sg, cand)]
  IN [ id1 |-> sel, id2 |-> cand,
       label1 |-> DisplayLabel(obj1), label2 |-> DisplayLabel(obj2),
       sameClass |-> (RawLabel(obj1) = RawLabel(obj2)),
       timestamp |-> Now ]

\* ToggleSimilar as it would be without the selectedObjectId === candidateId return
ToggleSimilar_NoSelfGuard(anns, sg, sel, cand) ==
  IF sel = NoObject THEN anns
  ELSE IF sg = NoGraph THEN anns
  ELSE IF FindObject(sg, sel) = 0 \/ FindObject(sg, cand) = 0 THEN anns
  ELSE IF ExistingIndex(anns, sel, cand) # 0
       THEN Splice(anns, ExistingIndex(anns, sel, cand) - 1)
       ELSE Append(anns, NewAnnotation(sg, sel, cand))

\* the similarity list createSimilarityAnnotation(cand) leaves, sel being selectedObjectId
ToggleSimilar(anns, sg, sel, cand) ==
  IF sel = NoObject THEN anns
  ELSE IF sel = cand THEN anns
  ELSE IF sg = NoGraph THEN anns
  ELSE IF FindObject(sg, sel) = 0 \/ FindObject(sg, cand) = 0 THEN anns
  ELSE IF ExistingIndex(anns, sel, cand) # 0
       THEN Splice(anns, ExistingIndex(anns, sel, cand) - 1)
       ELSE Append(anns, NewAnnotation(sg, sel, cand))

\* ToggleValidation as it would be without the toggle-off branch
ToggleValidation_AlwaysSets(map, key, status) ==
  [k \in (DOMAIN map) \cup {key} |-> IF k = key THEN status ELSE map[k]]

\* the toggle of validateAttribute / validateRelationship on one key of a map
ToggleValidation(map, key, status) ==
  IF key \in DOMAIN map /\ map[key] = status
  THEN [k \in (DOMAIN map) \ {key} |-> map[k]]
  ELSE [k \in (DOMAIN map) \cup {key} |-> IF k = key THEN status ELSE map[k]]

\* map[key] || null
ValidationOrNull(map, key) == IF key \in DOMAIN map THEN map[key] ELSE NULL

\* Object.values(map).filter(v => v === status).length
CountStatus(map, status) == Cardinality({k \in DOMAIN map : map[k] = status})

getDatasetFromSceneId(sceneId) ==
  IF sceneId = SceneB THEN "multiscan" ELSE "scannet"

\* --------------------------------------------------------------- handlers
\* setAnnotationMode as it would be if leaving similarity mode dropped the pairs
setAnnotationMode_DropsPairs(mode) ==
  /\ annotationMode' = IF annotationMode = mode /\ mode # NULL THEN NULL ELSE mode
  /\ similarityAnnotations' =
       IF annotationMode = "similarity" THEN << >> ELSE similarityAnnotations
  /\ UNCHANGED << selectedObjectId, sceneVars, attributeValidations, additionalAttributes,
                  relationshipValidations, additionalRelationships >>

\* setAnnotationMode as it would be without the toggle-off test
setAnnotationMode_NoToggleOff(mode) ==
  /\ annotationMode' = mode
  /\ UNCHANGED << selectedObjectId, sceneVars, stores >>

setAnnotationMode(mode) ==
  /\ annotationMode' = IF annotationMode = mode /\ mode # NULL THEN NULL ELSE mode
  /\ UNCHANGED << selectedObjectId, sceneVars, stores >>

\* the object list offers the objects of the loaded scene graph
selectObject(objectId) ==
  /\ FindObject(sceneGraphData, objectId) # 0
  /\ selectedObjectId' = objectId
  /\ UNCHANGED << annotationMode, sceneVars, stores >>

\* the candidate panel exists in similarity mode only
createSimilarityAnnotation(candidateId) ==
  /\ annotationMode = "similarity"
  /\ \/ Len(similarityAnnotations) < MaxSim
     \/ ExistingIndex(similarityAnnotations, selectedObjectId, candidateId) # 0
  /\ similarityAnnotations' =
       ToggleSimilar(similarityAnnotations, sceneGraphData, selectedObjectId, candidateId)
  /\ UNCHANGED << annotationMode, selectedObjectId, sceneVars, attributeValidations,
                  additionalAttributes, relationshipValidations,
                  additionalRelationships >>

deleteAnnotation(index) ==
  /\ similarityAnnotations' = Splice(similarityAnnotations, index)
  /\ UNCHANGED << annotationMode, selectedObjectId, sceneVars, attributeValidations,
                  additionalAttributes, relationshipValidations,
                  additionalRelationships >>

\* the validation buttons of an attribute tag exist in attribute mode only, one pair per
\* predicted attribute of the loaded scene graph
validateAttribute(attrId, status) ==
  /\ annotationMode = "attribute"
  /\ \E i \in 1..Len(sceneGraphData.attributes) : sceneGraphData.attributes[i].id = attrId
  /\ attributeValidations' = ToggleValidation(attributeValidations, attrId, status)
  /\ UNCHANGED << annotationMode, selectedObjectId, sceneVars, similarityAnnotations,
                  additionalAttributes, relationshipValidations,
                  additionalRelationships >>

\* the relationship panel is rendered for the selected object in relationship mode; a scene
\* load does not re-render it, so it may still carry the indexes of the scene shown before
validateRelationship(relIndex, status) ==
  /\ annotationMode = "relationship"
  /\ selectedObjectId # NoObject
  /\ sceneGraphData # NoGraph
  /\ relationshipValidations' = ToggleValidation(relationshipValidations, relIndex, status)
  /\ UNCHANGED << annotationMode, selectedObjectId, sceneVars, similarityAnnotations,
                  attributeValidations, additionalAttributes,
                  additionalRelationships >>

AddedAttribute(objectId, name) ==
  [ id |-> "added_" \o ToString(objectId) \o "_" \o Now,
    object_id |-> objectId, name |-> name, timestamp |-> Now ]

addAnnotatedAttribute(objectId, name) ==
  /\ annotationMode = "attribute"
  /\ FindObject(sceneGraphData, objectId) # 0
  /\ Len(additionalAttributes) < MaxAdded
  /\ additionalAttributes' =
       IF name = "" THEN additionalAttributes
       ELSE Append(additionalAttributes, AddedAttribute(objectId, name))
  /\ UNCHANGED << annotationMode, selectedObjectId, sceneVars, similarityAnnotations,
                  attributeValidations, relationshipValidations,
                  additionalRelationships >>

\* additionalX.findIndex(a => a.id === id) followed by splice(index, 1)
DeleteById(list, id) ==
  LET hits == {i \in 1..Len(list) : list[i].id = id}
  IN IF hits = {} THEN list
     ELSE Splice(list, (CHOOSE i \in hits : \A j \in hits : i <= j) - 1)

deleteAnnotatedAttribute(attrId) ==
  /\ annotationMode = "attribute"
  /\ additionalAttributes' = DeleteById(additionalAttributes, attrId)
  /\ UNCHANGED << annotationMode, selectedObjectId, sceneVars, similarityAnnotations,
                  attributeValidations, relationshipValidations,
                  additionalRelationships >>

AddedRelationship(subjectId, objectId, predicate) ==
  [ id |-> "added_rel_" \o ToString(subjectId) \o "_" \o ToString(objectId) \o "_" \o Now,
    subject_id |-> subjectId, object_id |-> objectId, predicate |-> predicate,
    timestamp |-> Now ]

\* objectId is parseInt of the chosen <option>: an object of the scene other than the
\* subject, or NoObject for the empty choice (NaN); !objectId rejects NaN and 0
addRelationship(subjectId, objectId, predicate) ==
  /\ annotationMode = "relationship"
  /\ subjectId = selectedObjectId
  /\ FindObject(sceneGraphData, subjectId) # 0
  /\ objectId = NoObject \/ (objectId # subjectId /\ FindObject(sceneGraphData, objectId) # 0)
  /\ Len(additionalRelationships) < MaxAdded
  /\ additionalRelationships' =
       IF predicate = "" THEN additionalRelationships
       ELSE IF objectId = NoObject \/ objectId = 0 THEN additionalRelationships
       ELSE Append(additionalRelationships, AddedRelationship(subjectId, objectId, predicate))
  /\ UNCHANGED << annotationMode, selectedObjectId, sceneVars, similarityAnnotations,
                  attributeValidations, additionalAttributes,
                  relationshipValidations >>

deleteAddedRelationship(relId) ==
  /\ annotationMode = "relationship"
  /\ additionalRelationships' = DeleteById(additionalRelationships, relId)
  /\ UNCHANGED << annotationMode, selectedObjectId, sceneVars, similarityAnnotations,
                  attributeValidations, additionalAttributes,
                  relationshipValidations >>

clearAttributeValidations ==
  /\ attributeValidations' = EmptyMap
  /\ additionalAttributes' = << >>
  /\ relationshipValidations' = EmptyMap
  /\ additionalRelationships' = << >>
  /\ UNCHANGED << annotationMode, selectedObjectId, sceneVars, similarityAnnotations >>

\* ------------------------------------------------------- export and import
\* attr.type || null
TypeOrNull(attr) == IF attr.type \in {UNDEFINED, ""} THEN NULL ELSE attr.type

\* the exportData object exportAnnotations serialises
ExportDocument(sg, sceneId, mode, anns, attrVal, addedAttrs, relVal, addedRels) ==
  [ scene_id |-> IF sg # NoGraph THEN sg.id ELSE sceneId,
    timestamp |-> Now,
    annotation_type |-> IF mode = NULL THEN "all" ELSE mode,
    similarity |-> [ annotations |-> anns, summary |-> [total |-> Len(anns)] ],
    attributes |->
      [ predicted |->
          [ total |-> Len(sg.attributes),
            items |-> [i \in 1..Len(sg.attributes) |->
                         [ id |-> sg.attributes[i].id,
                           object_id |-> sg.attributes[i].object_id,
                           name |-> sg.attributes[i].name,
                           type |-> TypeOrNull(sg.attributes[i]),
                           validation |-> ValidationOrNull(attrVal, sg.attributes[i].id) ]] ],
        added |-> addedAttrs,
        summary |-> [ predicted_total |-> Len(sg.attributes),
                      correct |-> CountStatus(attrVal, "correct"),
                      incorrect |-> CountStatus(attrVal, "incorrect"),
                      added |-> Len(addedAttrs) ] ],
    relationships |->
      [ predicted |->
          [ total |-> Len(sg.relationships),
            items |-> [i \in 1..Len(sg.relationships) |->
                         [ index |-> i - 1,
                           subject_id |-> sg.relationships[i].subject_id,
                           predicate |-> sg.relationships[i].name,
                           object_ids |-> sg.relationships[i].recipient_id,
                           validation |-> ValidationOrNull(relVal, i - 1) ]] ],
        added |-> addedRels,
        summary |-> [ predicted_total |-> Len(sg.relationships),
                      correct |-> CountStatus(relVal, "correct"),
                      incorrect |-> CountStatus(relVal, "incorrect"),
                      added |-> Len(addedRels) ] ] ]

\* if (!sceneGraphData && annotationMode !== 'similarity') { alert(...); return; }
ExportRefused == sceneGraphData = NoGraph /\ annotationMode # "similarity"

\* the document an export of the present session writes
CurrentExport ==
  ExportDocument(sceneGraphData, currentSceneId, annotationMode, similarityAnnotations,
                 attributeValidations, additionalAttributes,
                 relationshipValidations, additionalRelationships)

\* the export builds the document and hands it to the browser as a download; it assigns
\* none of the session globals
exportAnnotations ==
  /\ ~ExportRefused
  /\ UNCHANGED vars

\* documents on disk that earlier sessions exported: one of a fully annotated session on
\* SceneA, one of a session on SceneB
EarlierDocuments ==
  { ExportDocument(SceneGraphFile(SceneA), SceneA, "relationship",
                   << NewAnnotation(SceneGraphFile(SceneA), 1, 2) >>,
                   ("a1" :> "correct" @@ "a2" :> "incorrect"),
                   << AddedAttribute(1, "soft") >>,
                   (1 :> "incorrect"),
                   << AddedRelationship(1, 2, "near") >>),
    ExportDocument(SceneGraphFile(SceneB), SceneB, NULL,
                   << NewAnnotation(SceneGraphFile(SceneB), 2, 0) >>,
                   ("a2" :> "correct"),
                   << >>,
                   (0 :> "correct"),
                   << AddedRelationship(0, 2, "near") >>) }

\* the files the annotations-file input can be given: the earlier exports and, when the
\* session can export, the document it exports now
Documents == EarlierDocuments \cup (IF ExportRefused THEN {} ELSE {CurrentExport})

\* ImportList as it would be if the section were tested with section.length
ImportList_SkipsEmpty(current, section) == IF section = << >> THEN current ELSE section

\* if (section) store = section: an array, also an empty one, is truthy
ImportList(current, section) == section

\* ImportValidations as it would be without the if (it.validation) test
ImportValidations_Unfiltered(items, keys) ==
  LET last(k) == CHOOSE i \in 1..Len(items) :
                   keys[i] = k /\ \A j \in 1..Len(items) : keys[j] = k => j <= i
  IN [k \in {keys[i] : i \in 1..Len(items)} |-> items[last(k)].validation]

\* map = {}; items.forEach(it => { if (it.validation) map[key(it)] = it.validation })
\* keys[i] is the key of item i
ImportValidations(items, keys) ==
  LET kept == {i \in 1..Len(items) : items[i].validation # NULL}
      last(k) == CHOOSE i \in kept : keys[i] = k /\ \A j \in kept : keys[j] = k => j <= i
  IN [k \in {keys[i] : i \in kept} |-> items[last(k)].validation]

\* attr.id of each item
AttrKeys(items) == [i \in 1..Len(items) |-> items[i].id]
\* RelKeys as it would be if the import keyed an item by its position counted from one
RelKeys_FromOne(items) == [i \in 1..Len(items) |-> i]
\* RelKeys as it would be if the import keyed an item by the id of its subject
RelKeys_BySubject(items) == [i \in 1..Len(items) |-> items[i].subject_id]
\* rel.index of each item
RelKeys(items) == [i \in 1..Len(items) |-> items[i].index]

\* data.scene_id && sceneGraphData && data.scene_id !== sceneGraphData.id
SceneMismatch(data, sg) ==
  data.scene_id # NULL /\ sg # NoGraph /\ data.scene_id # sg.id

\* ImportProceeds as it would be if a scene mismatch ended the import
ImportProceeds_MismatchBlocks(data, sg, confirmed) == ~SceneMismatch(data, sg)

\* the import goes on unless the scenes differ and confirm() was answered with Cancel
ImportProceeds(data, sg, confirmed) == ~(SceneMismatch(data, sg) /\ ~confirmed)

\* the five stores as reader.onload leaves them once the import has gone on
ImportedStores(data) ==
  [ similarityAnnotations |->
      ImportList(similarityAnnotations, data.similarity.annotations),
    attributeValidations |->
      ImportValidations(data.attributes.predicted.items,
                        AttrKeys(data.attributes.predicted.items)),
    additionalAttributes |->
      ImportList(additionalAttributes, data.attributes.added),
    relationshipValidations |->
      ImportValidations(data.relationships.predicted.items,
                        RelKeys(data.relationships.predicted.items)),
    additionalRelationships |->
      ImportList(additionalRelationships, data.relationships.added) ]

CurrentStores ==
  [ similarityAnnotations |-> similarityAnnotations,
    attributeValidations |-> attributeValidations,
    additionalAttributes |-> additionalAttributes,
    relationshipValidations |-> relationshipValidations,
    additionalRelationships |-> additionalRelationships ]

\* the five stores after reader.onload has run on data; confirmed is the answer to
\* confirm(), asked only on a scene mismatch
AfterImport(data, confirmed) ==
  IF ImportProceeds(data, sceneGraphData, confirmed)
  THEN ImportedStores(data)
  ELSE CurrentStores

\* processAnnotationFile on the file picked in the annotations-file input
processAnnotationFile(data, confirmed) ==
  /\ data \in Documents
  /\ similarityAnnotations' = AfterImport(data, confirmed).similarityAnnotations
  /\ attributeValidations' = AfterImport(data, confirmed).attributeValidations
  /\ additionalAttributes' = AfterImport(data, confirmed).additionalAttributes
  /\ relationshipValidations' = AfterImport(data, confirmed).relationshipValidations
  /\ additionalRelationships' = AfterImport(data, confirmed).additionalRelationships
  /\ UNCHANGED << annotationMode, selectedObjectId, sceneVars >>

\* ------------------------------------------------------------- scene load
\* loadScene up to its first await: the fetch of the scene graph is in flight
loadSceneBegin(sceneId) ==
  /\ currentSceneId # sceneId
  /\ Len(loading) < MaxPending
  /\ currentDataset' = getDatasetFromSceneId(sceneId)
  /\ currentSceneId' = sceneId
  /\ loading' = Append(loading, sceneId)
  /\ beforeLoad' = Append(beforeLoad, [ currentSceneId |-> currentSceneId,
                                         currentDataset |-> currentDataset ])
  /\ UNCHANGED << annotationMode, selectedObjectId, sceneGraphData, stores, calls >>

\* loadScene called while an earlier call still awaits its fetch: the same statements, up
\* to the first await
loadSceneOverlapping(sceneId) ==
  /\ loading # << >>
  /\ currentSceneId # sceneId
  /\ Len(loading) < MaxOverlapping
  /\ currentDataset' = getDatasetFromSceneId(sceneId)
  /\ currentSceneId' = sceneId
  /\ loading' = Append(loading, sceneId)
  /\ beforeLoad' = Append(beforeLoad, [ currentSceneId |-> currentSceneId,
                                         currentDataset |-> currentDataset ])
  /\ UNCHANGED << annotationMode, selectedObjectId, sceneGraphData, stores, calls >>

\* the fetch of pending call i returned a scene graph: the rest of loadScene's try block
loadSceneLoaded(i) ==
  /\ i \in 1..Len(loading)
  /\ sceneGraphData' = SceneGraphFile(loading[i])
  /\ attributeValidations' = EmptyMap
  /\ additionalAttributes' = << >>
  /\ relationshipValidations' = EmptyMap
  /\ additionalRelationships' = << >>
  /\ loading' = Splice(loading, i - 1)
  /\ beforeLoad' = Splice(beforeLoad, i - 1)
  /\ UNCHANGED << annotationMode, selectedObjectId, currentSceneId, currentDataset,
                  similarityAnnotations, calls >>

\* the fetch of pending call i failed, or JSON.parse threw: the catch block
loadSceneFailed(i) ==
  /\ i \in 1..Len(loading)
  /\ loading' = Splice(loading, i - 1)
  /\ beforeLoad' = Splice(beforeLoad, i - 1)
  /\ UNCHANGED << annotationMode, selectedObjectId, sceneGraphData, currentSceneId,
                  currentDataset, stores, calls >>

\* ------------------------------------------------------------- PLY decoder
\* the letters of the words a header line is made of
Spell(word) ==
  CASE word = "property"       -> <<"p","r","o","p","e","r","t","y">>
    [] word = "list"           -> <<"l","i","s","t">>
    [] word = "char"           -> <<"c","h","a","r">>
    [] word = "uchar"          -> <<"u","c","h","a","r">>
    [] word = "short"          -> <<"s","h","o","r","t">>
    [] word = "ushort"         -> <<"u","s","h","o","r","t">>
    [] word = "int"            -> <<"i","n","t">>
    [] word = "uint"           -> <<"u","i","n","t">>
    [] word = "float"          -> <<"f","l","o","a","t">>
    [] word = "double"         -> <<"d","o","u","b","l","e">>
    [] word = "x"              -> <<"x">>
    [] word = "y"              -> <<"y">>
    [] word = "z"              -> <<"z">>
    [] word = "nx"             -> <<"n","x">>
    [] word = "ny"             -> <<"n","y">>
    [] word = "nz"             -> <<"n","z">>
    [] word = "red"            -> <<"r","e","d">>
    [] word = "green"          -> <<"g","r","e","e","n">>
    [] word = "blue"           -> <<"b","l","u","e">>
    [] word = "alpha"          -> <<"a","l","p","h","a">>
    [] word = "label"          -> <<"l","a","b","e","l">>
    [] word = "time"           -> <<"t","i","m","e">>
    [] word = "intensity"      -> <<"i","n","t","e","n","s","i","t","y">>
    [] word = "quality"        -> <<"q","u","a","l","i","t","y">>
    [] word = "vertex_indices" -> <<"v","e","r","t","e","x","_","i","n","d","i","c","e","s">>

\* a header line, or a pattern searched in one: its words joined by single spaces
RECURSIVE Text(_)
Text(words) ==
  IF Len(words) = 0 THEN << >>
  ELSE IF Len(words) = 1 THEN Spell(words[1])
  ELSE Spell(words[1]) \o <<" ">> \o Text(Tail(words))

\* String.prototype.includes
Includes(line, pattern) ==
  \E i \in 0..(Len(line) - Len(pattern)) : SubSeq(line, i + 1, i + Len(pattern)) = pattern

\* the bytes parsePLY adds to bytesPerVertex for one property line of the vertex element
VertexPropertyBytes(line) ==
  IF Includes(line, Spell("uchar")) \/ Includes(line, Spell("char")) THEN 1
  ELSE IF Includes(line, Spell("ushort")) \/ Includes(line, Spell("short")) THEN 2
  ELSE IF Includes(line, Spell("uint")) \/ Includes(line, Spell("int"))
          \/ Includes(line, Spell("float")) THEN 4
  ELSE IF Includes(line, Spell("double")) THEN 8
  ELSE 0

\* the bytes parsePLY adds to faceExtraBytes for one property line of the face element
FacePropertyBytes(line) ==
  IF Includes(line, Spell("vertex_indices")) THEN 0
  ELSE IF Includes(line, Spell("uchar")) THEN 1
  ELSE IF Includes(line, Spell("ushort")) \/ Includes(line, Spell("short")) THEN 2
  ELSE IF Includes(line, Spell("uint")) \/ Includes(line, Spell("int"))
          \/ Includes(line, Spell("float")) THEN 4
  ELSE IF Includes(line, Spell("double")) THEN 8
  ELSE 0

\* the locals of parsePLY before the first header line is read
HeaderStart ==
  [ bytesPerVertex |-> 0, colorOffset |-> -1, xOffset |-> 0, yOffset |-> 4, zOffset |-> 8,
    xyzIsDouble |-> FALSE, hasColors |-> FALSE, hasNormals |-> FALSE, faceExtraBytes |-> 0 ]

\* property float nx|ny|nz anywhere in the header
MentionsNormal(line) ==
  \/ Includes(line, Text(<<"property", "float", "nx">>))
  \/ Includes(line, Text(<<"property", "float", "ny">>))
  \/ Includes(line, Text(<<"property", "float", "nz">>))

\* property uchar red|green|blue anywhere in the header
MentionsColor(line) ==
  \/ Includes(line, Text(<<"property", "uchar", "red">>))
  \/ Includes(line, Text(<<"property", "uchar", "green">>))
  \/ Includes(line, Text(<<"property", "uchar", "blue">>))

\* one pass of the header loop over a property line of the vertex element
ScanVertexProperty(h, line) ==
  LET isRed == Includes(line, Text(<<"property", "uchar", "red">>))
      doubleX == Includes(line, Text(<<"property", "double", "x">>))
      floatX == Includes(line, Text(<<"property", "float", "x">>))
      isY == \/ Includes(line, Text(<<"property", "double", "y">>))
             \/ Includes(line, Text(<<"property", "float", "y">>))
      isZ == \/ Includes(line, Text(<<"property", "double", "z">>))
             \/ Includes(line, Text(<<"property", "float", "z">>))
  IN [ h EXCEPT
         !.colorOffset = IF isRed THEN h.bytesPerVertex ELSE @,
         !.hasColors = @ \/ isRed \/ MentionsColor(line),
         !.xOffset = IF doubleX \/ floatX THEN h.bytesPerVertex ELSE @,
         !.xyzIsDouble = @ \/ doubleX,
         !.yOffset = IF isY THEN h.bytesPerVertex ELSE @,
         !.zOffset = IF isZ THEN h.bytesPerVertex ELSE @,
         !.bytesPerVertex = @ + VertexPropertyBytes(line),
         !.hasNormals = @ \/ MentionsNormal(line) ]

\* one pass of the header loop over a property line of the face element
ScanFaceProperty(h, line) ==
  [ h EXCEPT !.faceExtraBytes = @ + FacePropertyBytes(line),
             !.hasNormals = @ \/ MentionsNormal(line),
             !.hasColors = @ \/ MentionsColor(line) ]

RECURSIVE ScanVertexProperties(_, _)
ScanVertexProperties(h, lines) ==
  IF lines = << >> THEN h
  ELSE ScanVertexProperties(ScanVertexProperty(h, Head(lines)), Tail(lines))

RECURSIVE ScanFaceProperties(_, _)
ScanFaceProperties(h, lines) ==
  IF lines = << >> THEN h
  ELSE ScanFaceProperties(ScanFaceProperty(h, Head(lines)), Tail(lines))

\* if (bytesPerVertex === 0): the estimate for a header that declared no vertex width
FallbackOffsets(h) ==
  IF h.bytesPerVertex # 0 THEN h
  ELSE [ h EXCEPT
           !.bytesPerVertex = 12 + (IF h.hasNormals THEN 12 ELSE 0)
                                 + (IF h.hasColors THEN 4 ELSE 0),
           !.colorOffset = IF h.hasNormals THEN 24 ELSE 12,
           !.xOffset = 0, !.yOffset = 4, !.zOffset = 8 ]

\* the arguments parsePLY hands to parseBinaryPLY for a binary file whose header declares
\* element vertex, its properties, element face, its properties, end_header
ParseHeader(file) ==
  LET v == ScanVertexProperties(HeaderStart,
                                [i \in 1..Len(file.vertexProperties) |->
                                   Text(file.vertexProperties[i])])
      f == ScanFaceProperties(v, [i \in 1..Len(file.faceProperties) |->
                                    Text(file.faceProperties[i])])
  IN FallbackOffsets(f)

\* the value 0 of a coordinate
Zero == <<0, 0, 0, 0>>

\* view.getFloat32(at, true) followed by the replacement of NaN and the infinities by 0:
\* 0 for an all-ones exponent and for +0 and -0, the four bytes of the number otherwise
Float32At(view, at) ==
  LET b == SubSeq(view, at + 1, at + 4)
  IN IF b[4] % 128 = 127 /\ b[3] >= 128 THEN Zero
     ELSE IF b[1] = 0 /\ b[2] = 0 /\ b[3] = 0 /\ b[4] % 128 = 0 THEN Zero
     ELSE b

\* view.getFloat64(at, true) followed by the same replacement
Float64At(view, at) ==
  LET b == SubSeq(view, at + 1, at + 8)
  IN IF b[8] % 128 = 127 /\ b[7] >= 240 THEN Zero
     ELSE IF (\A k \in 1..7 : b[k] = 0) /\ b[8] % 128 = 0 THEN Zero
     ELSE b

\* view.getInt32(at, true)
Int32At(view, at) ==
  view[at + 1] + 256 * view[at + 2] + 65536 * view[at + 3]
    + 16777216 * (IF view[at + 4] >= 128 THEN view[at + 4] - 256 ELSE view[at + 4])

\* sRGBToLinear(byte / 255): the byte and the branch of the curve it is mapped by
\* (byte / 255 <= 0.04045 exactly for the bytes 0..10)
sRGBToLinear(byte) ==
  [ srgb255 |-> byte, curve |-> IF byte <= 10 THEN "c / 12.92" ELSE "pow 2.4" ]

\* the locals of parseBinaryPLY before the vertex loop
DecodeStart ==
  [ points |-> << >>, colors |-> << >>, indices |-> << >>, offset |-> 0, threw |-> FALSE ]

\* one pass of the vertex loop, entered with offset + bytesPerVertex <= view.byteLength; a
\* DataView read that leaves the view throws a RangeError, which the catch block rethrows
ReadVertex(view, h, d) ==
  LET width == IF h.xyzIsDouble THEN 8 ELSE 4
      inView(at) == at >= 0 /\ at + width <= Len(view)
      coordinate(at) == IF h.xyzIsDouble THEN Float64At(view, at) ELSE Float32At(view, at)
      at == d.offset + h.colorOffset
  IN IF ~(inView(d.offset + h.xOffset) /\ inView(d.offset + h.yOffset)
            /\ inView(d.offset + h.zOffset))
     THEN [ d EXCEPT !.threw = TRUE ]
     ELSE [ d EXCEPT
              !.points = @ \o << coordinate(d.offset + h.xOffset),
                                 coordinate(d.offset + h.yOffset),
                                 coordinate(d.offset + h.zOffset) >>,
              !.colors = IF h.hasColors /\ h.colorOffset >= 0 /\ at + 4 <= Len(view)
                         THEN @ \o << sRGBToLinear(view[at + 1]), sRGBToLinear(view[at + 2]),
                                      sRGBToLinear(view[at + 3]) >>
                         ELSE @,
              !.offset = @ + h.bytesPerVertex ]

\* the vertex loop from vertex i on
RECURSIVE ReadVertices(_, _, _, _, _)
ReadVertices(view, h, vertexCount, i, d) ==
  IF i >= vertexCount \/ d.threw \/ d.offset + h.bytesPerVertex > Len(view) THEN d
  ELSE ReadVertices(view, h, vertexCount, i + 1, ReadVertex(view, h, d))

\* points[v*3] === 0 && points[v*3+1] === 0 && points[v*3+2] === 0
IsOrigin(points, v) ==
  points[3 * v + 1] = Zero /\ points[3 * v + 2] = Zero /\ points[3 * v + 3] = Zero

\* a triangle is kept when its indices are in 0..maxVertex and none of its vertices is at
\* the origin
AcceptsTriangle(points, v0, v1, v2) ==
  LET maxVertex == (Len(points) \div 3) - 1
  IN /\ v0 >= 0 /\ v0 <= maxVertex /\ v1 >= 0 /\ v1 <= maxVertex
     /\ v2 >= 0 /\ v2 <= maxVertex
     /\ ~IsOrigin(points, v0) /\ ~IsOrigin(points, v1) /\ ~IsOrigin(points, v2)

\* the face loop from face i on; a branch that does not recurse is the loop's break
RECURSIVE ReadFaces(_, _, _, _, _)
ReadFaces(view, h, faceCount, i, d) ==
  IF i >= faceCount \/ d.offset + 1 > Len(view) THEN d
  ELSE
    LET numVerts == view[d.offset + 1]
        offset == d.offset + 1
        v0 == Int32At(view, offset)
        v1 == Int32At(view, offset + 4)
        v2 == Int32At(view, offset + 8)
        kept == AcceptsTriangle(d.points, v0, v1, v2)
        skipped == offset + numVerts * 4 + h.faceExtraBytes
    IN IF numVerts = 3 /\ offset + 12 + h.faceExtraBytes <= Len(view)
       THEN ReadFaces(view, h, faceCount, i + 1,
                      [ d EXCEPT !.indices = IF kept THEN @ \o <<v0, v1, v2>> ELSE @,
                                 !.offset = offset + 12 + h.faceExtraBytes ])
       ELSE IF numVerts > 0 /\ numVerts < 10
       THEN IF skipped > Len(view) THEN [ d EXCEPT !.offset = skipped ]
            ELSE ReadFaces(view, h, faceCount, i + 1, [ d EXCEPT !.offset = skipped ])
       ELSE [ d EXCEPT !.offset = offset ]

\* what parseBinaryPLY returns, or that it threw
DecodeBinary(view, h, vertexCount, faceCount) ==
  LET v == ReadVertices(view, h, vertexCount, 0, DecodeStart)
      d == IF v.threw \/ faceCount <= 0 THEN v ELSE ReadFaces(view, h, faceCount, 0, v)
  IN [ points |-> d.points, colors |-> d.colors, indices |-> d.indices,
       hasColors |-> h.hasColors /\ Len(d.colors) > 0, hasFaces |-> faceCount > 0,
       threw |-> d.threw ]

\* ------------------------------------------------------------ PLY files
\* the little-endian float32 of the numbers the files below hold
F32(n) ==
  CASE n = 0 -> <<0, 0, 0, 0>>
    [] n = 1 -> <<0, 0, 128, 63>>
    [] n = 2 -> <<0, 0, 0, 64>>
    [] n = 3 -> <<0, 0, 64, 64>>
    [] n = 4 -> <<0, 0, 128, 64>>
    [] n = 5 -> <<0, 0, 160, 64>>
    [] n = 6 -> <<0, 0, 192, 64>>

\* the little-endian float64 of the same numbers
F64(n) ==
  CASE n = 0 -> <<0, 0, 0, 0, 0, 0, 0, 0>>
    [] n = 1 -> <<0, 0, 0, 0, 0, 0, 240, 63>>
    [] n = 2 -> <<0, 0, 0, 0, 0, 0, 0, 64>>
    [] n = 3 -> <<0, 0, 0, 0, 0, 0, 8, 64>>

\* a float32 NaN
NaN32 == <<0, 0, 192, 127>>

\* the little-endian int32 of a small index
I32(n) == <<n, 0, 0, 0>>

\* a face record: the vertex count, three indices, the bytes of the extra properties
Triangle(a, b, c, extra) == <<3>> \o I32(a) \o I32(b) \o I32(c) \o extra

Property(type, name) == <<"property", type, name>>
VertexIndices == <<"property", "list", "uchar", "int", "vertex_indices">>

\* x, y, z as floats, then red, green, blue as uchars: two vertices, no face element
ScenarioFile ==
  [ vertexCount |-> 2,
    vertexProperties |-> << Property("float", "x"), Property("float", "y"),
                            Property("float", "z"), Property("uchar", "red"),
                            Property("uchar", "green"), Property("uchar", "blue") >>,
    faceCount |-> 0, faceProperties |-> << >>,
    data |-> F32(1) \o F32(2) \o F32(3) \o <<255, 0, 0>>
               \o F32(4) \o F32(5) \o F32(6) \o <<0, 255, 0>> ]

\* the same vertices with an alpha byte each
AlphaFile ==
  [ ScenarioFile EXCEPT
      !.vertexProperties = @ \o << Property("uchar", "alpha") >>,
      !.data = F32(1) \o F32(2) \o F32(3) \o <<255, 0, 0, 255>>
                 \o F32(4) \o F32(5) \o F32(6) \o <<0, 255, 0, 255>> ]

\* the same vertices followed by two triangles
MeshFile ==
  [ ScenarioFile EXCEPT
      !.faceCount = 2, !.faceProperties = << VertexIndices >>,
      !.data = @ \o Triangle(0, 1, 0, << >>) \o Triangle(1, 0, 1, << >>) ]

\* color before position: a red vertex at (1,2,3), a nearly black one at (0,0,1), one face
ColorFirstFile ==
  [ vertexCount |-> 2,
    vertexProperties |-> << Property("uchar", "red"), Property("uchar", "green"),
                            Property("uchar", "blue"), Property("float", "x"),
                            Property("float", "y"), Property("float", "z") >>,
    faceCount |-> 1, faceProperties |-> << VertexIndices >>,
    data |-> <<255, 0, 0>> \o F32(1) \o F32(2) \o F32(3)
               \o <<3, 0, 0>> \o F32(0) \o F32(0) \o F32(1)
               \o Triangle(0, 1, 0, << >>) ]

\* positions only, one of them NaN, and a face element with a one-byte property per face
PositionsFile ==
  [ vertexCount |-> 3,
    vertexProperties |-> << Property("float", "x"), Property("float", "y"),
                            Property("float", "z") >>,
    faceCount |-> 2,
    faceProperties |-> << VertexIndices, Property("uchar", "quality") >>,
    data |-> F32(1) \o F32(2) \o F32(3) \o F32(4) \o NaN32 \o F32(6)
               \o F32(0) \o F32(0) \o F32(0)
               \o Triangle(0, 1, 0, <<7>>) \o Triangle(0, 2, 1, <<7>>) ]

\* positions as doubles
DoubleFile ==
  [ vertexCount |-> 2,
    vertexProperties |-> << Property("double", "x"), Property("double", "y"),
                            Property("double", "z") >>,
    faceCount |-> 0, faceProperties |-> << >>,
    data |-> F64(1) \o F64(2) \o F64(3) \o F64(3) \o F64(0) \o F64(1) ]

\* a file cut short at every length, the whole file included
Truncations(file) ==
  { [file EXCEPT !.data = SubSeq(file.data, 1, n)] : n \in 0..Len(file.data) }

\* the bytes a writer gives a property of each type
TypeBytes(type) ==
  CASE type \in {"char", "uchar"} -> 1
    [] type \in {"short", "ushort"} -> 2
    [] type \in {"int", "uint", "float"} -> 4
    [] type = "double" -> 8

\* the properties a vertex may carry besides its position and its color
OtherProperties ==
  { Property("uchar", "alpha"), Property("short", "label"), Property("float", "quality"),
    Property("double", "time"), Property("double", "intensity"),
    Property("ushort", "intensity") }

\* the blocks a vertex declaration is made of here: x, y, z, the color bytes, one other
Blocks(coordinate, other) ==
  << << Property(coordinate, "x") >>, << Property(coordinate, "y") >>,
     << Property(coordinate, "z") >>,
     << Property("uchar", "red"), Property("uchar", "green"), Property("uchar", "blue") >>,
     << other >> >>

\* the orders five blocks can be declared in
Orders == { p \in [1..5 -> 1..5] : \A i, j \in 1..5 : p[i] = p[j] => i = j }

RECURSIVE Bytes(_)
Bytes(properties) ==
  IF properties = << >> THEN 0
  ELSE TypeBytes(Head(properties)[2]) + Bytes(Tail(properties))

\* one vertex of zeros under every declaration order of the blocks
ReorderedFiles ==
  { LET b == Blocks(coordinate, other)
        properties == b[p[1]] \o b[p[2]] \o b[p[3]] \o b[p[4]] \o b[p[5]]
    IN [ vertexCount |-> 1, vertexProperties |-> properties,
         faceCount |-> 0, faceProperties |-> << >>,
         data |-> [k \in 1..Bytes(properties) |-> 0] ] :
    p \in Orders, coordinate \in {"float", "double"}, other \in OtherProperties }

\* two vertices and two triangles, the first with an index no vertex has
StrayIndexFile ==
  [ MeshFile EXCEPT
      !.data = ScenarioFile.data \o Triangle(0, 2, 1, << >>) \o Triangle(1, 0, 1, << >>) ]

\* a face record of any vertex count: the count, that many indices of vertex 0, the bytes
\* of the extra properties
Polygon(count, extra) == <<count>> \o [k \in 1..(4 * count) |-> 0] \o extra

\* the vertex counts of the face records that are not triangles
PolygonCounts == {0, 2, 4, 9, 10}

\* the vertices of PositionsFile, then a face that is not a triangle, then a triangle
PolygonFiles ==
  { [ PositionsFile EXCEPT
        !.data = SubSeq(@, 1, 36) \o Polygon(count, <<7>>) \o Triangle(0, 1, 0, <<7>>) ] :
    count \in PolygonCounts }

\* the binary PLY files a scene's point cloud or mesh is fetched from
PlyFiles ==
  Truncations(ScenarioFile) \cup Truncations(AlphaFile) \cup Truncations(MeshFile)
    \cup Truncations(ColorFirstFile) \cup Truncations(PositionsFile)
    \cup Truncations(DoubleFile) \cup ReorderedFiles
    \cup UNION { Truncations(file) : file \in PolygonFiles }
    \cup Truncations(StrayIndexFile)

\* a decode that has not run
NoGeometry ==
  [ points |-> << >>, colors |-> << >>, indices |-> << >>, hasColors |-> FALSE,
    hasFaces |-> FALSE, threw |-> FALSE ]

NoPlyFile ==
  [ vertexCount |-> 0, vertexProperties |-> << >>, faceCount |-> 0,
    faceProperties |-> << >>, data |-> << >> ]

NoPlyCall == [ stage |-> "none", file |-> NoPlyFile, header |-> HeaderStart,
               geometry |-> NoGeometry ]

\* parsePLY on a fetched binary file, up to its call of parseBinaryPLY
parsePLY ==
  /\ plyCall.stage = "fetched"
  /\ plyCall' = [ plyCall EXCEPT !.stage = "header", !.header = ParseHeader(plyCall.file) ]
  /\ UNCHANGED << annotationMode, selectedObjectId, sceneGraphData, currentSceneId,
                  currentDataset, loading, beforeLoad, stores, convertCall, displayCall,
                  asciiCall, cloudCall >>

\* parseBinaryPLY with the arguments parsePLY computed
parseBinaryPLY ==
  /\ plyCall.stage = "header"
  /\ plyCall' = [ plyCall EXCEPT
                    !.stage = "decoded",
                    !.geometry = DecodeBinary(plyCall.file.data, plyCall.header,
                                              plyCall.file.vertexCount,
                                              plyCall.file.faceCount) ]
  /\ UNCHANGED << annotationMode, selectedObjectId, sceneGraphData, currentSceneId,
                  currentDataset, loading, beforeLoad, stores, convertCall, displayCall,
                  asciiCall, cloudCall >>

\* ------------------------------------------- multiscan scene-graph converter
\* An entry of normalizedAxes: a whole number, or a value isFinite rejects
Number(n) == [ kind |-> "number", v |-> n ]
NotANumber == [ kind |-> "NaN", v |-> 0 ]
PlusInfinity == [ kind |-> "Infinity", v |-> 0 ]
MinusInfinity == [ kind |-> "-Infinity", v |-> 0 ]
Missing == [ kind |-> "undefined", v |-> 0 ]

\* isFinite(v)
IsFinite(entry) == entry.kind = "number"

\* normalizedAxes[i], undefined past the end of the array
Entry(axes, i) == IF i + 1 <= Len(axes) THEN axes[i + 1] ELSE Missing

\* m00 .. m22 as the converter picks them: row-major 3x3 from nine elements, the upper left
\* 3x3 of a row-major 4x4 otherwise
RotationPart(axes) ==
  IF Len(axes) = 9
  THEN [ m00 |-> Entry(axes, 0), m01 |-> Entry(axes, 1), m02 |-> Entry(axes, 2),
         m10 |-> Entry(axes, 3), m11 |-> Entry(axes, 4), m12 |-> Entry(axes, 5),
         m20 |-> Entry(axes, 6), m21 |-> Entry(axes, 7), m22 |-> Entry(axes, 8) ]
  ELSE [ m00 |-> Entry(axes, 0), m01 |-> Entry(axes, 1), m02 |-> Entry(axes, 2),
         m10 |-> Entry(axes, 4), m11 |-> Entry(axes, 5), m12 |-> Entry(axes, 6),
         m20 |-> Entry(axes, 8), m21 |-> Entry(axes, 9), m22 |-> Entry(axes, 10) ]

\* -v
Negate(a) ==
  IF a.kind = "Infinity" THEN MinusInfinity
  ELSE IF a.kind = "-Infinity" THEN PlusInfinity
  ELSE IF a.kind = "number" THEN Number(-a.v) ELSE NotANumber

\* a + b in doubles whose finite range is scaled down to -MaxFinite .. MaxFinite: a sum
\* beyond the range is an infinity, opposite infinities add up to NaN
Plus(a, b) ==
  IF a.kind \notin { "number", "Infinity", "-Infinity" } THEN NotANumber
  ELSE IF b.kind \notin { "number", "Infinity", "-Infinity" } THEN NotANumber
  ELSE IF a.kind = "number" /\ b.kind = "number"
  THEN IF a.v + b.v > MaxFinite THEN PlusInfinity
       ELSE IF a.v + b.v < -MaxFinite THEN MinusInfinity
       ELSE Number(a.v + b.v)
  ELSE IF a.kind = "number" THEN b
  ELSE IF b.kind = "number" THEN a
  ELSE IF a.kind = b.kind THEN a ELSE NotANumber

\* a - b
Minus(a, b) == Plus(a, Negate(b))

\* a > b, false when either side is NaN
GreaterThan(a, b) ==
  /\ a.kind \in { "number", "Infinity", "-Infinity" }
  /\ b.kind \in { "number", "Infinity", "-Infinity" }
  /\ \/ a.kind = "Infinity" /\ b.kind # "Infinity"
     \/ a.kind = "number" /\ b.kind = "-Infinity"
     \/ a.kind = "number" /\ b.kind = "number" /\ a.v > b.v

RECURSIVE Gcd(_, _)
Gcd(a, b) == IF b = 0 THEN a ELSE Gcd(b, a % b)

Sign(n) == IF n > 0 THEN 1 ELSE IF n < 0 THEN -1 ELSE 0

\* a finite component of the quaternion, the real number sign * sqrt(num / den) with
\* num >= 0 and den > 0 in lowest terms: the components are square roots of ratios of
\* whole numbers when the matrix entries are whole numbers
Root(sign, num, den) ==
  IF sign = 0 \/ num = 0 THEN [ sign |-> 0, num |-> 0, den |-> 1 ]
  ELSE [ sign |-> sign, num |-> num \div Gcd(num, den), den |-> den \div Gcd(num, den) ]

\* a component that is NaN, Infinity or -Infinity
NotFinite == [ sign |-> 0, num |-> 0, den |-> 0 ]

\* qw = 1, qx = 0, qy = 0, qz = 0 as the array [qx, qy, qz, qw]
IdentityQuaternion == << Root(0, 0, 1), Root(0, 0, 1), Root(0, 0, 1), Root(1, 1, 1) >>

\* d * s for s = 0.5 / Math.sqrt(t), and d / s for s = 2.0 * Math.sqrt(t): d over twice
\* the root of t; 0 for a finite d when t is Infinity, not finite when d is not finite,
\* when t is negative (the root is NaN) and when t is 0 (a product with, or a division
\* by, 0 or Infinity)
OverTwoRoots(d, t) ==
  IF t.kind = "Infinity" THEN (IF d.kind = "number" THEN Root(0, 0, 1) ELSE NotFinite)
  ELSE IF t.kind # "number" \/ d.kind # "number" THEN NotFinite
  ELSE IF t.v <= 0 THEN NotFinite
  ELSE Root(Sign(d.v), d.v * d.v, 4 * t.v)

\* 0.25 / s for s = 0.5 / Math.sqrt(t), and 0.25 * s for s = 2.0 * Math.sqrt(t): half the
\* root of t
HalfRoot(t) ==
  IF t.kind # "number" THEN NotFinite
  ELSE IF t.v < 0 THEN NotFinite
  ELSE Root(1, t.v, 4)

\* [qx, qy, qz, qw] as the four branches compute it from finite entries
QuaternionOfMatrix(m) ==
  LET trace == Plus(Plus(m.m00, m.m11), m.m22)
  IN IF GreaterThan(trace, Number(0))
     THEN LET t == Plus(trace, Number(1))
          IN << OverTwoRoots(Minus(m.m21, m.m12), t), OverTwoRoots(Minus(m.m02, m.m20), t),
                OverTwoRoots(Minus(m.m10, m.m01), t), HalfRoot(t) >>
     ELSE IF GreaterThan(m.m00, m.m11) /\ GreaterThan(m.m00, m.m22)
     THEN LET t == Minus(Minus(Plus(Number(1), m.m00), m.m11), m.m22)
          IN << HalfRoot(t), OverTwoRoots(Plus(m.m01, m.m10), t),
                OverTwoRoots(Plus(m.m02, m.m20), t), OverTwoRoots(Minus(m.m21, m.m12), t) >>
     ELSE IF GreaterThan(m.m11, m.m22)
     THEN LET t == Minus(Minus(Plus(Number(1), m.m11), m.m00), m.m22)
          IN << OverTwoRoots(Plus(m.m01, m.m10), t), HalfRoot(t),
                OverTwoRoots(Plus(m.m12, m.m21), t), OverTwoRoots(Minus(m.m02, m.m20), t) >>
     ELSE LET t == Minus(Minus(Plus(Number(1), m.m22), m.m00), m.m11)
          IN << OverTwoRoots(Plus(m.m02, m.m20), t), OverTwoRoots(Plus(m.m12, m.m21), t),
                HalfRoot(t), OverTwoRoots(Minus(m.m10, m.m01), t) >>

\* the result as it would be kept without the test of the computed components
KeepQuaternion(q) == q

\* if (!isFinite(qx) || !isFinite(qy) || !isFinite(qz) || !isFinite(qw)) fall back to
\* the identity
ValidateQuaternion(q) ==
  IF \E i \in 1..4 : q[i] = NotFinite THEN IdentityQuaternion ELSE q

\* bbox.rotation of an object whose obb.normalizedAxes is axes
QuaternionFromAxes(axes) ==
  LET m == RotationPart(axes)
      matrixValid == \A e \in { m.m00, m.m01, m.m02, m.m10, m.m11, m.m12,
                                m.m20, m.m21, m.m22 } : IsFinite(e)
  IN IF matrixValid THEN ValidateQuaternion(QuaternionOfMatrix(m)) ELSE IdentityQuaternion

\* lengths and coordinates of boxes are whole numbers of hundredths of a unit; the files
\* below hold even axis lengths, so that d / 2 is a whole number of hundredths too
HalfDims(axesLengths) == [i \in 1..Len(axesLengths) |-> axesLengths[i] \div 2]

\* objects.push({id, labels, bbox: {center, half_dims, rotation}, ...})
ConvertObject(obj) ==
  [ id |-> obj.objectId, labels |-> << obj.label >>,
    bbox |-> [ center |-> obj.obb.centroid, half_dims |-> HalfDims(obj.obb.axesLengths),
               rotation |-> QuaternionFromAxes(obj.obb.normalizedAxes) ],
    mobilityType |-> "unknown", partIds |-> << >> ]

Abs(n) == IF n < 0 THEN -n ELSE n
Max(a, b) == IF a > b THEN a ELSE b

\* horizontalDist < Math.max(h1[0] + h2[0], h1[2] + h2[2]), the distance being the root of
\* the sum of the squares of the x and z offsets
HorizontallyClose(b1, b2) ==
  LET reach == Max(b1.half_dims[1] + b2.half_dims[1], b1.half_dims[3] + b2.half_dims[3])
      dx == b1.center[1] - b2.center[1]
      dz == b1.center[3] - b2.center[3]
  IN reach > 0 /\ dx * dx + dz * dz < reach * reach

\* the relationships the spatial inference pushes for the pair (obj1, obj2), obj1 the
\* earlier of the two in the object list; 5, 10 and 50 are 0.05, 0.1 and 0.5
InferOnTopOf(obj1, obj2) ==
  LET verticalDist == obj1.bbox.center[2] - obj2.bbox.center[2]
      verticalOverlap == (obj1.bbox.half_dims[2] + obj2.bbox.half_dims[2])
                           - Abs(verticalDist)
  IN IF HorizontallyClose(obj1.bbox, obj2.bbox)
          /\ verticalOverlap < 10 /\ Abs(verticalDist) < 50
     THEN IF verticalDist > 5
          THEN << [ subject |-> obj1.id, predicate |-> "on top of", object |-> obj2.id ] >>
          ELSE IF verticalDist < -5
          THEN << [ subject |-> obj2.id, predicate |-> "on top of", object |-> obj1.id ] >>
          ELSE << >>
     ELSE << >>

\* the double loop over the pairs i < j from the pair (i, j) on
RECURSIVE InferSpatial(_, _, _)
InferSpatial(objects, i, j) ==
  IF i > Len(objects) THEN << >>
  ELSE IF j > Len(objects) THEN InferSpatial(objects, i + 1, i + 2)
  ELSE InferOnTopOf(objects[i], objects[j]) \o InferSpatial(objects, i, j + 1)

\* what convertMultiscanToSceneGraph returns for annotations that carry no parts and no
\* mobility types: no part-of relationship and no attribute
ConvertMultiscan(data) ==
  LET objects == [i \in 1..Len(data.objects) |-> ConvertObject(data.objects[i])]
  IN [ id |-> data.scanId, objects |-> objects,
       relationships |-> InferSpatial(objects, 1, 2), attributes |-> EmptyMap ]

\* ------------------------------------------------------- multiscan annotations
\* a row-major 3x3 matrix with a, b, c on its diagonal
Diagonal(a, b, c) ==
  << Number(a), Number(0), Number(0), Number(0), Number(b), Number(0),
     Number(0), Number(0), Number(c) >>

\* the rows of a 3x3 matrix that has sign[i] in column p[i] of row i
SignedPermutation(p, sign) ==
  [k \in 1..9 |-> IF p[((k - 1) \div 3) + 1] = ((k - 1) % 3) + 1
                  THEN Number(sign[((k - 1) \div 3) + 1]) ELSE Number(0)]

\* the rotations by quarter turns about the axes, and their mirror images
SignedPermutations ==
  { SignedPermutation(p, sign) :
      p \in { q \in [1..3 -> 1..3] : \A i, j \in 1..3 : q[i] = q[j] => i = j },
      sign \in [1..3 -> {-1, 1}] }

\* diagonal matrices: the zero matrix, the identity, scaled and mirrored identities
Diagonals == { Diagonal(a, b, c) : a, b, c \in {-1, 0, 1, 2} }

\* the identity with one entry that is not finite
Corrupted ==
  { [ Diagonal(1, 1, 1) EXCEPT ![k] = bad ] :
      k \in 1..9, bad \in { NotANumber, PlusInfinity, MinusInfinity } }

\* finite matrices whose sums leave the range of the doubles
Overflowing ==
  { Diagonal(600, 600, 600), Diagonal(600, -600, 0), Diagonal(-600, 600, 0),
    Diagonal(-600, 0, 600),
    [ Diagonal(1, 1, 1) EXCEPT ![8] = Number(600), ![6] = Number(-600) ],
    [ Diagonal(0, -1, -1) EXCEPT ![2] = Number(600), ![4] = Number(600) ] }

\* the 4x4 matrix [R t; 0 1] of a 3x3 matrix R, t an entry repeated down the last column
Homogeneous(m, t) ==
  << m[1], m[2], m[3], t, m[4], m[5], m[6], t, m[7], m[8], m[9], t,
     Number(0), Number(0), Number(0), Number(1) >>

\* the values of obb.normalizedAxes: nine elements, sixteen, or too few
AxesInputs ==
  SignedPermutations \cup Diagonals \cup Corrupted \cup Overflowing
    \cup { Homogeneous(m, t) : m \in { Diagonal(1, 1, 1), Diagonal(0, 0, 0), Diagonal(2, 2, 2),
                                       [ Diagonal(1, 1, 1) EXCEPT ![5] = NotANumber ] },
                               t \in { Number(0), NotANumber } }
    \cup { << Number(1), Number(0), Number(0) >> }

MultiscanObject(objectId, label, centroid, axesLengths, normalizedAxes) ==
  [ objectId |-> objectId, label |-> label,
    obb |-> [ centroid |-> centroid, axesLengths |-> axesLengths,
              normalizedAxes |-> normalizedAxes ] ]

\* annotations of one box, with every value of normalizedAxes
OrientedFiles ==
  { [ scanId |-> "scene_00000_00",
      objects |-> << MultiscanObject(1, "table", << 0, 0, 0 >>, << 100, 100, 100 >>, axes) >> ] :
    axes \in AxesInputs }

\* the heights of the second box's centre, the first being at height 0, and the offsets of
\* its centre along x and z, in hundredths
Heights == { -80, -50, -49, -30, -6, -5, 0, 5, 6, 30, 49, 50, 80 }
OffsetsX == { 0, 60, 100, 120 }
OffsetsZ == { 0, 80 }
\* the lengths of both boxes along x, y, z, in hundredths
Lengths == { << 100, 100, 100 >>, << 100, 50, 100 >>, << 100, 44, 100 >>, << 100, 4, 100 >> }

\* annotations of two axis-aligned boxes of the same size
StackedFiles ==
  { [ scanId |-> "scene_00000_00",
      objects |-> << MultiscanObject(1, "table", << 0, 0, 0 >>, lengths, Diagonal(1, 1, 1)),
                     MultiscanObject(2, "lamp", << x, y, z >>, lengths, Diagonal(1, 1, 1)) >> ] :
    x \in OffsetsX, y \in Heights, z \in OffsetsZ, lengths \in Lengths }

MultiscanFiles == OrientedFiles \cup StackedFiles

NoMultiscanFile == [ scanId |-> "", objects |-> << >> ]

\* a conversion that has not run
NoConvertCall == [ stage |-> "none", data |-> NoMultiscanFile, graph |-> NoGraph ]

\* convertMultiscanToSceneGraph(data) on parsed annotations
convertMultiscanToSceneGraph ==
  /\ convertCall.stage = "read"
  /\ convertCall' = [ convertCall EXCEPT !.stage = "converted",
                                         !.graph = ConvertMultiscan(convertCall.data) ]
  /\ UNCHANGED << annotationMode, selectedObjectId, sceneGraphData, currentSceneId,
                  currentDataset, loading, beforeLoad, stores, plyCall, displayCall,
                  asciiCall, cloudCall >>

\* --------------------------------------------------------- relationship panel
\* the characters of a relationship name
Letters(name) ==
  CASE name = "between"    -> <<"b","e","t","w","e","e","n">>
    [] name = "in between" -> <<"i","n"," ","b","e","t","w","e","e","n">>
    [] name = "In Between" -> <<"I","n"," ","B","e","t","w","e","e","n">>
    [] name = "BETWEEN"    -> <<"B","E","T","W","E","E","N">>
    [] name = "next to"    -> <<"n","e","x","t"," ","t","o">>
    [] name = "left of"    -> <<"l","e","f","t"," ","o","f">>
    [] name = "on top of"  -> <<"o","n"," ","t","o","p"," ","o","f">>
    [] name = "near"       -> <<"n","e","a","r">>

\* String.prototype.toLowerCase on the capitals the names hold
ToLowerCase(text) ==
  [i \in 1..Len(text) |->
     CASE text[i] = "B" -> "b" [] text[i] = "E" -> "e" [] text[i] = "I" -> "i"
       [] text[i] = "N" -> "n" [] text[i] = "T" -> "t" [] text[i] = "W" -> "w"
       [] OTHER -> text[i]]

\* IsOutgoingBetween as it would be if the name were searched as it is spelled
IsOutgoingBetween_CaseSensitive(rel) ==
  /\ Includes(Letters(rel.name), Letters("between"))
  /\ Len(rel.recipient_id) >= 2

\* rel.name.toLowerCase().includes('between') && rel.recipient_id &&
\* rel.recipient_id.length >= 2; a relationship without recipient_id is one with none
IsOutgoingBetween(rel) ==
  /\ Includes(ToLowerCase(Letters(rel.name)), Letters("between"))
  /\ Len(rel.recipient_id) >= 2

\* selectedRelTypeFilters.size > 0 ? selectedRelTypeFilters.has(rel.name) : kept
PassesTypeFilter(rel, selectedRelTypeFilters) ==
  selectedRelTypeFilters = {} \/ rel.name \in selectedRelTypeFilters

\* array.filter over the positions of an array: the positions that pass, in order
RECURSIVE FilterPositions(_, _, _)
FilterPositions(passes, from, to) ==
  IF from > to THEN << >>
  ELSE (IF passes[from] THEN << from >> ELSE << >>) \o FilterPositions(passes, from + 1, to)

\* nothing rendered: the 'Select an object' message
NoPanel == [ listed |-> FALSE, outgoing |-> << >>, inBetween |-> << >>, added |-> << >> ]

\* the three lists updateRelationshipsDisplay(objectId) renders. A relationship object is
\* identified by its position in sceneGraphData.relationships (includes and indexOf compare
\* object identities), relIndex being the position counted from 0
RelationshipsPanel(graph, objectId, selectedRelTypeFilters, addedRelationships) ==
  IF graph = NoGraph \/ objectId = NoObject THEN NoPanel
  ELSE
    LET relationships == graph.relationships
        n == Len(relationships)
        isSubject == [k \in 1..n |-> relationships[k].subject_id = objectId]
        outgoingBetween ==
          [k \in 1..n |-> isSubject[k] /\ IsOutgoingBetween(relationships[k])]
        outgoing ==
          [k \in 1..n |-> /\ isSubject[k]
                          /\ ~outgoingBetween[k]
                          /\ PassesTypeFilter(relationships[k], selectedRelTypeFilters)]
        inBetween ==
          [k \in 1..n |-> /\ outgoingBetween[k]
                          /\ PassesTypeFilter(relationships[k], selectedRelTypeFilters)]
        addedRels ==
          [k \in 1..Len(addedRelationships) |->
             \/ addedRelationships[k].subject_id = objectId
             \/ addedRelationships[k].object_id = objectId]
        shownOutgoing == FilterPositions(outgoing, 1, n)
        shownBetween == FilterPositions(inBetween, 1, n)
        shownAdded == FilterPositions(addedRels, 1, Len(addedRelationships))
    IN [ listed |-> TRUE,
         outgoing |->
           [i \in 1..Len(shownOutgoing) |->
              [ relIndex |-> shownOutgoing[i] - 1,
                name |-> relationships[shownOutgoing[i]].name,
                targetIds |-> relationships[shownOutgoing[i]].recipient_id ]],
         inBetween |->
           [i \in 1..Len(shownBetween) |->
              [ relIndex |-> shownBetween[i] - 1,
                name |-> relationships[shownBetween[i]].name,
                target1 |-> relationships[shownBetween[i]].recipient_id[1],
                target2 |-> relationships[shownBetween[i]].recipient_id[2] ]],
         added |-> [i \in 1..Len(shownAdded) |-> addedRelationships[shownAdded[i]].id] ]

\* relationships a scene graph may hold about the objects 1, 2 and 3
RelationshipInputs ==
  { [subject_id |-> 1, name |-> "next to", recipient_id |-> <<2>>],
    [subject_id |-> 2, name |-> "in between", recipient_id |-> <<1, 3>>],
    [subject_id |-> 2, name |-> "In Between", recipient_id |-> <<3, 1, 0>>],
    [subject_id |-> 2, name |-> "BETWEEN", recipient_id |-> <<1, 3>>],
    [subject_id |-> 2, name |-> "between", recipient_id |-> <<1>>],
    [subject_id |-> 1, name |-> "in between", recipient_id |-> << >>],
    [subject_id |-> 3, name |-> "left of", recipient_id |-> <<1, 2>>] }

\* the scene graphs the panel is rendered for: up to MaxRelationships relationships, in
\* every order and with repetitions
PanelGraphs ==
  { [ SceneGraphFile(SceneA) EXCEPT !.relationships = r ] :
      r \in UNION { [1..n -> RelationshipInputs] : n \in 0..MaxRelationships } }

TypeFilterInputs == { {}, {"in between"}, {"next to", "between"} }
AddedInputs == { << >>, << AddedRelationship(2, 3, "between"), AddedRelationship(1, 2, "near") >> }

NoDisplayCall ==
  [ stage |-> "none", graph |-> NoGraph, objectId |-> NoObject,
    selectedRelTypeFilters |-> {}, added |-> << >>, panel |-> NoPanel ]

\* updateRelationshipsDisplay(objectId)
updateRelationshipsDisplay ==
  /\ displayCall.stage = "selected"
  /\ displayCall' =
       [ displayCall EXCEPT
           !.stage = "rendered",
           !.panel = RelationshipsPanel(displayCall.graph, displayCall.objectId,
                                        displayCall.selectedRelTypeFilters,
                                        displayCall.added) ]
  /\ UNCHANGED << annotationMode, selectedObjectId, sceneGraphData, currentSceneId,
                  currentDataset, loading, beforeLoad, stores, plyCall, convertCall,
                  asciiCall, cloudCall >>
\* ------------------------------------------------------------ ASCII decoder
\* a token of a data line (what line.trim().split(/\s+/) yields): a decimal numeral,
\* written here by its value in tenths, or a word that is no numeral
Numeral(tenths) == [ kind |-> "numeral", tenths |-> tenths ]
Word == [ kind |-> "word", tenths |-> 0 ]

\* parseFloat(token), in tenths, followed by if (isNaN(x) || !isFinite(x)) x = 0
ParseCoordinate(token) == IF token.kind = "numeral" THEN token.tenths ELSE 0

\* parseInt(token): the numeral cut at its decimal point, NaN for a word
ParseInt(token) ==
  IF token.kind = "numeral"
  THEN [ nan |-> FALSE,
         v |-> IF token.tenths >= 0 THEN token.tenths \div 10 ELSE -((-token.tenths) \div 10) ]
  ELSE [ nan |-> TRUE, v |-> 0 ]

\* lines.slice(from, to): the lines at the positions from .. to - 1, counted from 0
Slice(lines, from, to) ==
  SubSeq(lines, from + 1, IF to > Len(lines) THEN Len(lines) ELSE to)

\* the vertex lines folded into points and colors: a blank line and a line of fewer than
\* three tokens add nothing
RECURSIVE ReadVertexLines(_, _, _)
ReadVertexLines(dataLines, hasColors, d) ==
  IF dataLines = << >> THEN d
  ELSE
    LET parts == Head(dataLines)
        color(k) == sRGBToLinear(ParseInt(parts[k]).v)
    IN ReadVertexLines(Tail(dataLines), hasColors,
         IF Len(parts) >= 3
         THEN [ d EXCEPT
                  !.points = @ \o << ParseCoordinate(parts[1]), ParseCoordinate(parts[2]),
                                     ParseCoordinate(parts[3]) >>,
                  !.colors = IF hasColors /\ Len(parts) >= 6
                             THEN @ \o << color(4), color(5), color(6) >> ELSE @ ]
         ELSE d)

\* the face lines folded into indices: only a line '3 v0 v1 v2' whose three indices are in
\* 0..maxVertex adds a triangle
RECURSIVE ReadFaceLines(_, _, _)
ReadFaceLines(faceLines, maxVertex, indices) ==
  IF faceLines = << >> THEN indices
  ELSE
    LET parts == Head(faceLines)
        inRange(k) == /\ ~ParseInt(parts[k]).nan
                      /\ ParseInt(parts[k]).v >= 0 /\ ParseInt(parts[k]).v <= maxVertex
    IN ReadFaceLines(Tail(faceLines), maxVertex,
         IF /\ Len(parts) >= 4
            /\ ~ParseInt(parts[1]).nan /\ ParseInt(parts[1]).v = 3
            /\ inRange(2) /\ inRange(3) /\ inRange(4)
         THEN indices \o << ParseInt(parts[2]).v, ParseInt(parts[3]).v, ParseInt(parts[4]).v >>
         ELSE indices)

\* parseASCIIPLY with the face indices tested against the vertex count of the header
DecodeASCII_DeclaredRange(lines, vertexCount, faceCount, hasColors) ==
  LET v == ReadVertexLines(Slice(lines, 0, vertexCount), hasColors, DecodeStart)
      indices == IF faceCount > 0
                 THEN ReadFaceLines(Slice(lines, vertexCount, vertexCount + faceCount),
                                    vertexCount - 1, << >>)
                 ELSE << >>
  IN [ points |-> v.points, colors |-> v.colors, indices |-> indices,
       hasColors |-> hasColors /\ Len(v.colors) > 0, hasFaces |-> faceCount > 0,
       threw |-> FALSE ]

\* what parseASCIIPLY returns; lines are the lines of the file from headerEnd on
DecodeASCII(lines, vertexCount, faceCount, hasColors) ==
  LET v == ReadVertexLines(Slice(lines, 0, vertexCount), hasColors, DecodeStart)
      maxVertex == (Len(v.points) \div 3) - 1
      indices == IF faceCount > 0
                 THEN ReadFaceLines(Slice(lines, vertexCount, vertexCount + faceCount),
                                    maxVertex, << >>)
                 ELSE << >>
  IN [ points |-> v.points, colors |-> v.colors, indices |-> indices,
       hasColors |-> hasColors /\ Len(v.colors) > 0, hasFaces |-> faceCount > 0,
       threw |-> FALSE ]

\* ------------------------------------------------------------- ASCII files
\* the vertex lines an ASCII file may hold: positions with and without a color, the
\* origin, a position written as nan, a line of two numbers, a blank line
VertexLines ==
  { << Numeral(10), Numeral(20), Numeral(30) >>,
    << Numeral(5), Numeral(-15), Numeral(0), Numeral(2550), Numeral(0), Numeral(100) >>,
    << Numeral(0), Numeral(0), Numeral(0) >>,
    << Word, Word, Word >>,
    << Numeral(10), Numeral(20) >>,
    << >> }

\* the face lines: triangles over the vertices 0..2, one with an index no vertex has, one
\* with a negative index, a quad, a line cut short, a line of words, a blank line
FaceLines ==
  { << Numeral(30), Numeral(0), Numeral(10), Numeral(20) >>,
    << Numeral(30), Numeral(0), Numeral(0), Numeral(0) >>,
    << Numeral(30), Numeral(10), Numeral(10), Numeral(0) >>,
    << Numeral(30), Numeral(0), Numeral(10), Numeral(30) >>,
    << Numeral(30), Numeral(-10), Numeral(0), Numeral(10) >>,
    << Numeral(40), Numeral(0), Numeral(10), Numeral(20), Numeral(0) >>,
    << Numeral(30), Numeral(0), Numeral(10) >>,
    << Numeral(30), Word, Numeral(0), Numeral(10) >>,
    << >> }

\* the ASCII PLY files: MaxVertexLines vertex lines and one or two face lines, the header
\* declaring as many vertices and faces as there are lines, with or without colors
AsciiFiles ==
  { [ vertexCount |-> Len(v), faceCount |-> Len(f), hasColors |-> c, lines |-> v \o f ] :
      v \in [1..MaxVertexLines -> VertexLines],
      f \in UNION { [1..n -> FaceLines] : n \in 0..1 }, c \in BOOLEAN }

NoAsciiFile == [ vertexCount |-> 0, faceCount |-> 0, hasColors |-> FALSE, lines |-> << >> ]

NoAsciiCall == [ stage |-> "none", file |-> NoAsciiFile, geometry |-> NoGeometry ]

\* parseASCIIPLY with the arguments parsePLY computed from the header of an ASCII file
parseASCIIPLY ==
  /\ asciiCall.stage = "fetched"
  /\ asciiCall' = [ asciiCall EXCEPT
                      !.stage = "decoded",
                      !.geometry = DecodeASCII(asciiCall.file.lines, asciiCall.file.vertexCount,
                                               asciiCall.file.faceCount,
                                               asciiCall.file.hasColors) ]
  /\ UNCHANGED << annotationMode, selectedObjectId, sceneGraphData, currentSceneId,
                  currentDataset, loading, beforeLoad, stores, plyCall, convertCall,
                  displayCall, cloudCall >>

\* ------------------------------------------------ point cloud sampling and display
\* what colors[i] reads past the end of the array
NoColor == -1

\* the vertices 0, step, 2 * step, ... below numVertices, as the sampling loop visits them
RECURSIVE SampledVertices(_, _, _)
SampledVertices(v, step, numVertices) ==
  IF v >= numVertices THEN << >>
  ELSE << v >> \o SampledVertices(v + step, step, numVertices)

\* sequence[i], counted from 0, undefined past the end
ColorAt(colors, i) == IF i + 1 <= Len(colors) THEN colors[i + 1] ELSE NoColor

\* array.push once per element of each triple
RECURSIVE Flatten(_)
Flatten(triples) == IF triples = << >> THEN << >> ELSE Head(triples) \o Flatten(Tail(triples))

\* the sampling applied to whatever has more than maxPoints vertices, faces or not
SamplePointCloud_AlsoMeshes(pcData) ==
  LET numVertices == Len(pcData.points) \div 3
      kept == SampledVertices(0, numVertices \div maxPoints, numVertices)
  IN IF numVertices > maxPoints
     THEN [ pcData EXCEPT
              !.points = Flatten([k \in 1..Len(kept) |->
                           << pcData.points[3 * kept[k] + 1], pcData.points[3 * kept[k] + 2],
                              pcData.points[3 * kept[k] + 3] >>]),
              !.colors = << >> ]
     ELSE pcData

\* the 'Sample if too many points' block of loadPointCloudFile and of loadScene: pcData as
\* it is handed to loadPointCloud
SamplePointCloud(pcData) ==
  LET numVertices == Len(pcData.points) \div 3
      step == numVertices \div maxPoints
      kept == SampledVertices(0, step, numVertices)
  IN IF ~pcData.hasFaces /\ numVertices > maxPoints
     THEN [ pcData EXCEPT
              !.points = Flatten([k \in 1..Len(kept) |->
                           << pcData.points[3 * kept[k] + 1], pcData.points[3 * kept[k] + 2],
                              pcData.points[3 * kept[k] + 3] >>]),
              !.colors = IF pcData.hasColors
                         THEN Flatten([k \in 1..Len(kept) |->
                                << ColorAt(pcData.colors, 3 * kept[k]),
                                   ColorAt(pcData.colors, 3 * kept[k] + 1),
                                   ColorAt(pcData.colors, 3 * kept[k] + 2) >>])
                         ELSE << >> ]
     ELSE pcData

\* isValid of the bounds loop, for the point whose coordinates start at points[i]
IsValidPoint(points, i) ==
  LET x == points[i]
      y == points[i + 1]
      z == points[i + 2]
  IN /\ ~(x = 0 /\ y = 0 /\ z = 0)
     /\ Abs(x) < 100 /\ Abs(y) < 100 /\ Abs(z) < 100

Least(numbers) == CHOOSE n \in numbers : \A o \in numbers : n <= o
Greatest(numbers) == CHOOSE n \in numbers : \A o \in numbers : n >= o

\* nothing drawn
NoView ==
  [ drawn |-> FALSE, position |-> << >>, index |-> << >>, mesh |-> FALSE,
    validPointCount |-> 0, framed |-> FALSE, min |-> << 0, 0, 0 >>, max |-> << 0, 0, 0 >>,
    twiceCenter |-> << 0, 0, 0 >> ]

\* loadPointCloud(data): the position attribute and the index of the geometry, whether a
\* mesh or a point cloud is drawn, and the bounds the camera is framed on; the centre
\* (min + max) / 2 is kept as min + max
LoadPointCloud(data) ==
  IF Len(data.points) = 0 THEN NoView
  ELSE
    LET points == data.points
        maxIndex == (Len(points) \div 3) - 1
        wantsMesh == data.hasFaces /\ Len(data.indices) > 0
        validIndices == SelectSeq(data.indices, LAMBDA idx : idx >= 0 /\ idx <= maxIndex)
        valid == { i \in 1..Len(points) : i % 3 = 1 /\ IsValidPoint(points, i) }
        validPointCount == Cardinality(valid)
        min == [a \in 1..3 |-> Least({ points[i + a - 1] : i \in valid })]
        max == [a \in 1..3 |-> Greatest({ points[i + a - 1] : i \in valid })]
    IN [ drawn |-> TRUE, position |-> points,
         index |-> IF wantsMesh THEN validIndices ELSE << >>,
         mesh |-> wantsMesh,
         validPointCount |-> validPointCount,
         framed |-> validPointCount > 0,
         min |-> IF validPointCount > 0 THEN min ELSE << 0, 0, 0 >>,
         max |-> IF validPointCount > 0 THEN max ELSE << 0, 0, 0 >>,
         twiceCenter |-> IF validPointCount > 0 THEN [a \in 1..3 |-> min[a] + max[a]]
                         ELSE << 0, 0, 0 >> ]

\* ------------------------------------------------------------ decoded geometry
\* positions in whole units: in and out of the plausible range, on its edge, the origin
PositionInputs ==
  { << 1, 2, 3 >>, << 0, 0, 0 >>, << 0, 0, 5 >>, << 100, 1, 1 >>, << 1, -100, 1 >>,
    << 99, -99, 0 >>, << 101, 0, 0 >>, << -7, 4, -101 >> }

\* faceless clouds of one or two of these positions
SmallClouds ==
  { [ points |-> Flatten(p), colors |-> << >>, indices |-> << >>, hasColors |-> FALSE,
      hasFaces |-> FALSE ] :
    p \in UNION { [1..n -> PositionInputs] : n \in 1..2 } }

\* n vertices, vertex v at (v + 1, v + 1, v + 1) with the color (v, v, v)
Diagonal3(n) == Flatten([v \in 1..n |-> << v, v, v >>])
VertexColors(n) == Flatten([v \in 1..n |-> << v - 1, v - 1, v - 1 >>])

\* clouds and meshes of up to 2 * maxPoints + 2 vertices: without colors, with a color per
\* vertex, with the last color missing; a decoder sets hasFaces when the header declares
\* faces and returns indices only then
LargeClouds ==
  { LET colors == IF c = "none" THEN << >>
                  ELSE IF c = "each" THEN VertexColors(n)
                  ELSE VertexColors(IF n > 0 THEN n - 1 ELSE 0)
    IN [ points |-> Diagonal3(n), colors |-> colors, indices |-> f[2],
         hasColors |-> Len(colors) > 0, hasFaces |-> f[1] ] :
    n \in 0..(2 * maxPoints + 2),
    c \in { "none", "each", "all but the last" },
    f \in { << FALSE, << >> >>, << TRUE, << >> >>, << TRUE, << 0, 1, 0 >> >>,
            << TRUE, << 0, 2 * maxPoints + 1, 1 >> >> } }

\* what parsePLY may have returned to loadPointCloudFile: the indices a decoder returns
\* are indices of the points it returns
CloudInputs ==
  { d \in SmallClouds \cup LargeClouds :
      \A i \in 1..Len(d.indices) : d.indices[i] < Len(d.points) \div 3 }

NoCloud ==
  [ points |-> << >>, colors |-> << >>, indices |-> << >>, hasColors |-> FALSE,
    hasFaces |-> FALSE ]

NoCloudCall == [ stage |-> "none", pcData |-> NoCloud, passed |-> NoCloud, view |-> NoView ]

\* loadPointCloudFile from the return of parsePLY on: the sampling, then loadPointCloud
loadPointCloudFile ==
  /\ cloudCall.stage = "parsed"
  /\ cloudCall' = [ cloudCall EXCEPT
                      !.stage = "loaded",
                      !.passed = SamplePointCloud(cloudCall.pcData),
                      !.view = LoadPointCloud(SamplePointCloud(cloudCall.pcData)) ]
  /\ UNCHANGED << annotationMode, selectedObjectId, sceneGraphData, currentSceneId,
                  currentDataset, loading, beforeLoad, stores, plyCall, convertCall,
                  displayCall, asciiCall >>

\* ------------------------------------------------------ next-state relations
AddedAttributeIds == {AddedAttribute(o, n).id : o \in ObjectIds, n \in AttrNameInputs}
AddedRelationshipIds ==
  {AddedRelationship(s, o, p).id : s \in ObjectIds, o \in ObjectIds, p \in PredicateInputs}
AttributeIds == {"a1", "a2"}
RelationshipIndexes == {0, 1}

\* what every session does, whatever is being annotated
SessionStep ==
  \/ \E mode \in Modes : setAnnotationMode(mode)
  \/ \E objectId \in ObjectIds : selectObject(objectId)
  \/ exportAnnotations
  \/ \E data \in Documents, confirmed \in BOOLEAN : processAnnotationFile(data, confirmed)
  \/ \E sceneId \in availableScenes : loadSceneBegin(sceneId)
  \/ \E i \in 1..MaxPending : loadSceneLoaded(i)
  \/ \E i \in 1..MaxPending : loadSceneFailed(i)

SimilarityStep ==
  \/ \E candidateId \in ObjectIds : createSimilarityAnnotation(candidateId)
  \/ \E index \in 0..(MaxSim - 1) : deleteAnnotation(index)

ValidationStep ==
  \/ \E attrId \in AttributeIds, status \in Statuses : validateAttribute(attrId, status)
  \/ \E relIndex \in RelationshipIndexes, status \in Statuses :
       validateRelationship(relIndex, status)
  \/ clearAttributeValidations

AdditionStep ==
  \/ \E objectId \in ObjectIds, name \in AttrNameInputs : addAnnotatedAttribute(objectId, name)
  \/ \E attrId \in AddedAttributeIds : deleteAnnotatedAttribute(attrId)
  \/ \E subjectId \in ObjectIds, objectId \in ObjectIds \cup {NoObject},
        predicate \in PredicateInputs : addRelationship(subjectId, objectId, predicate)
  \/ \E relId \in AddedRelationshipIds : deleteAddedRelationship(relId)

\* the decoders and the panel renderer, each on the arguments of its call
DecodeStep == parsePLY \/ parseBinaryPLY \/ parseASCIIPLY
ConvertStep == convertMultiscanToSceneGraph
DisplayStep == updateRelationshipsDisplay
CloudStep == loadPointCloudFile

\* the validation buttons of the relationship panel
RelationshipStep ==
  \E relIndex \in RelationshipIndexes, status \in Statuses :
    validateRelationship(relIndex, status)

\* loadScene calls that overlap, and the end of each
OverlapStep ==
  \/ \E sceneId \in availableScenes : loadSceneOverlapping(sceneId)
  \/ \E i \in 1..MaxOverlapping : loadSceneLoaded(i)
  \/ \E i \in 1..MaxOverlapping : loadSceneFailed(i)

Next ==
  \/ SessionStep \/ SimilarityStep \/ ValidationStep \/ AdditionStep
  \/ DecodeStep \/ ConvertStep \/ DisplayStep \/ CloudStep \/ OverlapStep

\* a fresh page: the globals as declared, no call made
Init ==
  /\ SessionInit
  /\ plyCall = NoPlyCall
  /\ convertCall = NoConvertCall
  /\ displayCall = NoDisplayCall
  /\ asciiCall = NoAsciiCall
  /\ cloudCall = NoCloudCall

\* a fresh page that has fetched one of the PLY files, binary or ASCII
InitPly ==
  /\ SessionInit
  /\ \/ /\ plyCall \in { [ NoPlyCall EXCEPT !.stage = "fetched", !.file = f ] :
                            f \in PlyFiles }
        /\ asciiCall = NoAsciiCall
     \/ /\ plyCall = NoPlyCall
        /\ asciiCall \in { [ NoAsciiCall EXCEPT !.stage = "fetched", !.file = f ] :
                              f \in AsciiFiles }
  /\ convertCall = NoConvertCall
  /\ displayCall = NoDisplayCall
  /\ cloudCall = NoCloudCall

\* a fresh page that has read one of the multiscan annotation files
InitConvert ==
  /\ SessionInit
  /\ plyCall = NoPlyCall
  /\ convertCall \in { [ NoConvertCall EXCEPT !.stage = "read", !.data = f ] :
                         f \in MultiscanFiles }
  /\ displayCall = NoDisplayCall
  /\ asciiCall = NoAsciiCall
  /\ cloudCall = NoCloudCall

\* a page on which an object has been selected and the panel is about to be rendered
InitDisplay ==
  /\ SessionInit
  /\ plyCall = NoPlyCall
  /\ convertCall = NoConvertCall
  /\ displayCall \in
       { [ NoDisplayCall EXCEPT !.stage = "selected", !.graph = g, !.objectId = o,
                                !.selectedRelTypeFilters = f, !.added = a ] :
           g \in PanelGraphs \cup {NoGraph}, o \in {1, 2, 3, NoObject},
           f \in TypeFilterInputs, a \in AddedInputs }
  /\ asciiCall = NoAsciiCall
  /\ cloudCall = NoCloudCall

\* a page whose file input was given a PLY file that parsePLY has decoded
InitCloud ==
  /\ SessionInit
  /\ plyCall = NoPlyCall
  /\ convertCall = NoConvertCall
  /\ displayCall = NoDisplayCall
  /\ asciiCall = NoAsciiCall
  /\ cloudCall \in { [ NoCloudCall EXCEPT !.stage = "parsed", !.pcData = d ] :
                       d \in CloudInputs }

\* the whole viewer
Spec == Init /\ [][Next]_vars
\* the PLY decoder on every file of PlyFiles
SpecPly == InitPly /\ [][DecodeStep]_vars
\* the multiscan converter on every file of MultiscanFiles
SpecConvert == InitConvert /\ [][ConvertStep]_vars
\* the relationship panel on every scene graph of PanelGraphs
SpecDisplay == InitDisplay /\ [][DisplayStep]_vars
\* the sampling and the display of every decoded geometry of CloudInputs
SpecCloud == InitCloud /\ [][CloudStep]_vars
\* a session that annotates similar pairs; the other stores change by import, load and clear
SpecSim == Init /\ [][SessionStep \/ SimilarityStep]_vars
\* a session that validates predicted attributes and relationships
SpecVal == Init /\ [][SessionStep \/ ValidationStep]_vars
\* a session that adds attributes and relationships
SpecAdd == Init /\ [][SessionStep \/ AdditionStep]_vars
\* a session that validates predicted relationships
SpecRel == Init /\ [][SessionStep \/ RelationshipStep]_vars
\* a session whose scene loads may overlap
SpecLoad == Init /\ [][SessionStep \/ OverlapStep]_vars
\* ------------------------------------------------------------------ claims
NoAnnotationState ==
  /\ similarityAnnotations = << >>
  /\ attributeValidations = EmptyMap
  /\ additionalAttributes = << >>
  /\ relationshipValidations = EmptyMap
  /\ additionalRelationships = << >>

\* C1: once a loadScene call has fetched its scene graph and run the rest of its try block,
\* the similarity list, both validation maps and both added-entry lists are empty.
C1_LoadDiscardsAllAnnotationState ==
  [][(\E i \in 1..MaxPending : loadSceneLoaded(i)) => NoAnnotationState']_vars

\* the unordered pairs of a similarity list
PairSet(anns) == {{anns[i].id1, anns[i].id2} : i \in 1..Len(anns)}

\* both objects are in the loaded scene graph, so the toggle gets past its early returns
Toggleable(a, b) ==
  /\ a # b
  /\ sceneGraphData # NoGraph
  /\ FindObject(sceneGraphData, a) # 0
  /\ FindObject(sceneGraphData, b) # 0

\* C2: the similarity list never holds two entries for the same unordered pair, nor an
\* entry that pairs an object with itself.
C2_SimilarityPairsUnique ==
  /\ \A i \in 1..Len(similarityAnnotations) :
       similarityAnnotations[i].id1 # similarityAnnotations[i].id2
  /\ \A i, j \in 1..Len(similarityAnnotations) :
       i # j => {similarityAnnotations[i].id1, similarityAnnotations[i].id2}
                  # {similarityAnnotations[j].id1, similarityAnnotations[j].id2}

\* two pairs are stored, one of them with the larger id first, in a session that has
\* seen an import (an added attribute can come from nowhere else here)
C2_Witness ==
  /\ Len(similarityAnnotations) = 2
  /\ \E i \in 1..2 : similarityAnnotations[i].id1 > similarityAnnotations[i].id2
  /\ additionalAttributes # << >>

\* C3: for a selected object a and a candidate b, both in the loaded scene, toggling the
\* pair twice leaves the set of unordered pairs as it was, whether or not it was stored.
C3_ToggleTwiceRestores ==
  \A a, b \in ObjectIds :
    Toggleable(a, b) =>
      PairSet(ToggleSimilar(ToggleSimilar(similarityAnnotations, sceneGraphData, a, b),
                            sceneGraphData, a, b))
        = PairSet(similarityAnnotations)

\* the selected object has a stored pair that is the first of two entries, and another
\* object of the scene it is not paired with
C3_Witness ==
  /\ Len(similarityAnnotations) = 2
  /\ \E b \in ObjectIds :
       /\ Toggleable(selectedObjectId, b)
       /\ ExistingIndex(similarityAnnotations, selectedObjectId, b) = 1
  /\ \E b \in ObjectIds :
       /\ Toggleable(selectedObjectId, b)
       /\ ExistingIndex(similarityAnnotations, selectedObjectId, b) = 0

\* the unordered pairs of a similarity list, each with its sameClass flag
ClassedPairSet(anns) ==
  {<< {anns[i].id1, anns[i].id2}, anns[i].sameClass >> : i \in 1..Len(anns)}

\* C4: toggling with a selected and b the candidate, and with b selected and a the
\* candidate, give the same unordered pairs with the same sameClass flags; a pair stored
\* as (a, b) is gone after the toggle made from b.
C4_ToggleOrderIndependent ==
  \A a, b \in ObjectIds :
    Toggleable(a, b) =>
      /\ ClassedPairSet(ToggleSimilar(similarityAnnotations, sceneGraphData, a, b))
           = ClassedPairSet(ToggleSimilar(similarityAnnotations, sceneGraphData, b, a))
      /\ (\E i \in 1..Len(similarityAnnotations) :
            similarityAnnotations[i].id1 = a /\ similarityAnnotations[i].id2 = b)
         => {a, b} \notin PairSet(ToggleSimilar(similarityAnnotations, sceneGraphData, b, a))

\* the selected object is the id2 of a stored pair whose id1 is in the scene too, and the
\* scene has a pair of differently labelled objects that is not stored
C4_Witness ==
  /\ \E i \in 1..Len(similarityAnnotations) :
       /\ similarityAnnotations[i].id2 = selectedObjectId
       /\ Toggleable(similarityAnnotations[i].id1, selectedObjectId)
  /\ \E b \in ObjectIds :
       /\ Toggleable(selectedObjectId, b)
       /\ ExistingIndex(similarityAnnotations, selectedObjectId, b) = 0
       /\ ~NewAnnotation(sceneGraphData, selectedObjectId, b).sameClass
\* the keys of both validation maps name predicted entries of the loaded scene graph
KeysInScene ==
  /\ \A k \in DOMAIN attributeValidations :
       \E i \in 1..Len(sceneGraphData.attributes) : sceneGraphData.attributes[i].id = k
  /\ \A k \in DOMAIN relationshipValidations :
       k \in 0..(Len(sceneGraphData.relationships) - 1)

\* C5: importing the document the session exports now, with nothing done in between,
\* leaves the similarity list and both validation maps as they are, in every session whose
\* validations are on entries of the loaded scene.
C5_ExportImportRoundTrip ==
  (~ExportRefused /\ KeysInScene) =>
    \A confirmed \in BOOLEAN :
      /\ AfterImport(CurrentExport, confirmed).similarityAnnotations = similarityAnnotations
      /\ AfterImport(CurrentExport, confirmed).attributeValidations = attributeValidations
      /\ AfterImport(CurrentExport, confirmed).relationshipValidations
           = relationshipValidations

\* a loaded scene with both validation maps and the similarity list filled, one attribute
\* and one relationship left unvalidated
C5_Witness ==
  /\ sceneGraphData # NoGraph
  /\ KeysInScene
  /\ similarityAnnotations # << >>
  /\ Cardinality(DOMAIN attributeValidations) = 1
  /\ Len(sceneGraphData.attributes) = 2
  /\ DOMAIN relationshipValidations = {1}

\* the (key, value) pairs of a validation map
MapPairs(map) == {<< k, map[k] >> : k \in DOMAIN map}

\* the (id, validation) pairs of the validated attribute items of a document
DocumentAttributeValidations(data) ==
  LET items == data.attributes.predicted.items
  IN {<< items[i].id, items[i].validation >> :
        i \in {j \in 1..Len(items) : items[j].validation # NULL}}

\* the (index, validation) pairs of the validated relationship items of a document
DocumentRelationshipValidations(data) ==
  LET items == data.relationships.predicted.items
  IN {<< items[i].index, items[i].validation >> :
        i \in {j \in 1..Len(items) : items[j].validation # NULL}}

\* the five stores r hold what the document holds, and nothing else
HoldsDocument(r, data) ==
  /\ r.similarityAnnotations = data.similarity.annotations
  /\ MapPairs(r.attributeValidations) = DocumentAttributeValidations(data)
  /\ r.additionalAttributes = data.attributes.added
  /\ MapPairs(r.relationshipValidations) = DocumentRelationshipValidations(data)
  /\ r.additionalRelationships = data.relationships.added

\* C6: an import that goes on leaves in the five stores exactly what the document holds,
\* whatever they held before and whichever scene the document was exported for.
C6_ImportReplaces ==
  \A data \in Documents, confirmed \in BOOLEAN :
    ImportProceeds(data, sceneGraphData, confirmed)
      => HoldsDocument(AfterImport(data, confirmed), data)

\* an earlier document with an empty section can be imported into a session whose five
\* stores are all filled (the lists can only have come from an import)
C6_Witness ==
  /\ similarityAnnotations # << >>
  /\ attributeValidations # EmptyMap
  /\ additionalAttributes # << >>
  /\ relationshipValidations # EmptyMap
  /\ additionalRelationships # << >>
  /\ \E data \in EarlierDocuments :
       data.attributes.added = << >> /\ ~HoldsDocument(CurrentStores, data)

C8_ModeSwitchKeepsAnnotations ==
  [][(\E mode \in Modes : setAnnotationMode(mode)) => UNCHANGED stores]_vars

\* similarity mode is on in a session whose five stores are all filled
C8_Witness ==
  /\ annotationMode = "similarity"
  /\ similarityAnnotations # << >>
  /\ attributeValidations # EmptyMap
  /\ additionalAttributes # << >>
  /\ relationshipValidations # EmptyMap
  /\ additionalRelationships # << >>

\* what validateAttribute(attrId, status) makes of the attribute map: the entry is deleted
\* if it held status and set to status otherwise, the other keys keep their values, and a
\* second call on a key that was absent takes the entry away again
ToggleOnOneKey(attrId, status) ==
  LET once == ToggleValidation(attributeValidations, attrId, status)
  IN /\ IF ValidationOrNull(attributeValidations, attrId) = status
        THEN attrId \notin DOMAIN once
        ELSE attrId \in DOMAIN once /\ once[attrId] = status
     /\ \A k \in (DOMAIN once \cup DOMAIN attributeValidations) \ {attrId} :
          ValidationOrNull(once, k) = ValidationOrNull(attributeValidations, k)
     /\ attrId \notin DOMAIN attributeValidations
          => ToggleValidation(once, attrId, status) = attributeValidations

\* C9: validateAttribute toggles one key of the attribute map (delete when it holds the
\* status, set otherwise; twice on an unvalidated attribute leaves it unvalidated) and
\* changes no other key and no other store.
C9_ValidateAttributeToggles ==
  /\ [](\A attrId \in AttributeIds, status \in Statuses : ToggleOnOneKey(attrId, status))
  /\ [][\A attrId \in AttributeIds, status \in Statuses :
          validateAttribute(attrId, status)
            => /\ attributeValidations'
                    = ToggleValidation(attributeValidations, attrId, status)
               /\ UNCHANGED << similarityAnnotations, additionalAttributes,
                               relationshipValidations, additionalRelationships >>]_vars

\* attribute mode on a scene with two attributes, one marked incorrect and one not
\* validated, the other four stores filled
C9_Witness ==
  /\ annotationMode = "attribute"
  /\ Len(sceneGraphData.attributes) = 2
  /\ \E k \in AttributeIds :
       DOMAIN attributeValidations = {k} /\ attributeValidations[k] = "incorrect"
  /\ similarityAnnotations # << >>
  /\ additionalAttributes # << >>
  /\ relationshipValidations # EmptyMap
  /\ additionalRelationships # << >>

\* C10: every value of both validation maps is 'correct' or 'incorrect'.
C10_ValidationValuesBinary ==
  /\ \A k \in DOMAIN attributeValidations : attributeValidations[k] \in Statuses
  /\ \A k \in DOMAIN relationshipValidations : relationshipValidations[k] \in Statuses

\* a session that has imported (it holds an added relationship) has both maps filled and
\* a predicted attribute and a predicted relationship of its scene without an entry
C10_Witness ==
  /\ additionalRelationships # << >>
  /\ attributeValidations # EmptyMap
  /\ relationshipValidations # EmptyMap
  /\ \E i \in 1..Len(sceneGraphData.attributes) :
       sceneGraphData.attributes[i].id \notin DOMAIN attributeValidations
  /\ \E i \in 1..Len(sceneGraphData.relationships) :
       (i - 1) \notin DOMAIN relationshipValidations

\* ------------------------------------------------------- claims: PLY decoder
\* the position of the property called name in a vertex declaration, 0 when it is absent
Declared(properties, name) ==
  LET hits == {i \in 1..Len(properties) : properties[i][3] = name}
  IN IF hits = {} THEN 0 ELSE CHOOSE i \in hits : TRUE

\* the bytes of the properties declared before the one called name
BytesBefore(properties, name) ==
  Bytes(SubSeq(properties, 1, Declared(properties, name) - 1))

\* the header declares red, green and blue as uchar
DeclaresColor(file) ==
  \A name \in {"red", "green", "blue"} :
    /\ Declared(file.vertexProperties, name) # 0
    /\ file.vertexProperties[Declared(file.vertexProperties, name)][2] = "uchar"

\* C11: when the header declares uchar red, green and blue, a decode returns as many color
\* triples as vertices, the last vertex of a buffer that ends with the vertex block included.
C11_OneColorPerVertex ==
  (plyCall.stage = "decoded" /\ DeclaresColor(plyCall.file) /\ ~plyCall.geometry.threw)
    => Len(plyCall.geometry.colors) = Len(plyCall.geometry.points)

\* C12: the offsets the decoder uses for x, y, z and red are the bytes of the properties
\* declared before each of them, and its stride is the bytes of all declared properties.
C12_OffsetsFollowDeclaration ==
  plyCall.stage \in {"header", "decoded"} =>
    LET properties == plyCall.file.vertexProperties
        h == plyCall.header
    IN /\ h.xOffset = BytesBefore(properties, "x")
       /\ h.yOffset = BytesBefore(properties, "y")
       /\ h.zOffset = BytesBefore(properties, "z")
       /\ Declared(properties, "red") # 0 => h.colorOffset = BytesBefore(properties, "red")
       /\ h.bytesPerVertex = Bytes(properties)

\* the bytes of one vertex record and of one triangle record as the header declares them
VertexRecordBytes(file) == Bytes(file.vertexProperties)
FaceRecordBytes(file) ==
  13 + Bytes(SelectSeq(file.faceProperties, LAMBDA line : line # VertexIndices))

\* the vertex records and the face records that lie completely inside the data
CompleteVertices(file) ==
  LET fit == Len(file.data) \div VertexRecordBytes(file)
  IN IF fit < file.vertexCount THEN fit ELSE file.vertexCount
CompleteFaces(file) ==
  LET left == Len(file.data) - file.vertexCount * VertexRecordBytes(file)
      fit == IF left < 0 THEN 0 ELSE left \div FaceRecordBytes(file)
  IN IF fit < file.faceCount THEN fit ELSE file.faceCount

\* the indices of the complete triangle records from record k on, those the decoder's
\* index and origin tests reject left out
RECURSIVE CompleteTriangles(_, _, _)
CompleteTriangles(file, points, k) ==
  IF k >= CompleteFaces(file) THEN << >>
  ELSE LET at == file.vertexCount * VertexRecordBytes(file) + k * FaceRecordBytes(file) + 1
           v0 == Int32At(file.data, at)
           v1 == Int32At(file.data, at + 4)
           v2 == Int32At(file.data, at + 8)
       IN (IF AcceptsTriangle(points, v0, v1, v2) THEN <<v0, v1, v2>> ELSE << >>)
            \o CompleteTriangles(file, points, k + 1)

\* the data is shorter than the vertex and face counts of the header require
CutShort(file) ==
  Len(file.data) < file.vertexCount * VertexRecordBytes(file)
                     + file.faceCount * FaceRecordBytes(file)

\* C13: on a buffer cut short parseBinaryPLY does not throw and returns exactly the vertices
\* and the triangles whose records lie completely inside the buffer.
C13_ShortBufferReturnsCompleteRecords ==
  (plyCall.stage = "decoded" /\ CutShort(plyCall.file)) =>
    /\ ~plyCall.geometry.threw
    /\ Len(plyCall.geometry.points) = 3 * CompleteVertices(plyCall.file)
    /\ plyCall.geometry.indices
         = CompleteTriangles(plyCall.file, plyCall.geometry.points, 0)

\* the face records of a binary file are all triangles
OnlyTriangleRecords(file) ==
  \A k \in 0..(file.faceCount - 1) :
    file.data[file.vertexCount * VertexRecordBytes(file) + k * FaceRecordBytes(file) + 1] = 3

\* a triangle is to be kept when its indices are in range and its three vertices are not
\* all at the origin; atOrigin[v + 1] says whether vertex v is
KeepsTriangle(atOrigin, v0, v1, v2) ==
  /\ \A v \in {v0, v1, v2} : v >= 0 /\ v < Len(atOrigin)
  /\ ~(atOrigin[v0 + 1] /\ atOrigin[v1 + 1] /\ atOrigin[v2 + 1])

\* the triangle records of a complete binary file from record k on that are to be kept
RECURSIVE KeptTriangles(_, _, _)
KeptTriangles(file, atOrigin, k) ==
  IF k >= file.faceCount THEN << >>
  ELSE LET at == file.vertexCount * VertexRecordBytes(file) + k * FaceRecordBytes(file) + 1
           v0 == Int32At(file.data, at)
           v1 == Int32At(file.data, at + 4)
           v2 == Int32At(file.data, at + 8)
       IN (IF KeepsTriangle(atOrigin, v0, v1, v2) THEN <<v0, v1, v2>> ELSE << >>)
            \o KeptTriangles(file, atOrigin, k + 1)

\* a face line '3 a b c' of whole numbers
IsTriangleLine(parts) ==
  /\ Len(parts) = 4
  /\ \A k \in 1..4 : parts[k].kind = "numeral" /\ parts[k].tenths % 10 = 0
  /\ parts[1].tenths = 30

\* the triangle lines among the face lines that are to be kept
RECURSIVE KeptTriangleLines(_, _)
KeptTriangleLines(faceLines, atOrigin) ==
  IF faceLines = << >> THEN << >>
  ELSE LET parts == Head(faceLines)
           v0 == parts[2].tenths \div 10
           v1 == parts[3].tenths \div 10
           v2 == parts[4].tenths \div 10
       IN (IF IsTriangleLine(parts) /\ KeepsTriangle(atOrigin, v0, v1, v2)
           THEN <<v0, v1, v2>> ELSE << >>)
            \o KeptTriangleLines(Tail(faceLines), atOrigin)

\* the face lines of an ASCII file are triangle lines or blank
OnlyTriangleLines(file) ==
  \A k \in (file.vertexCount + 1)..Len(file.lines) :
    file.lines[k] = << >> \/ IsTriangleLine(file.lines[k])

\* C21: a triangle with in-range indices is dropped exactly when all three of its vertices
\* are exactly (0,0,0), and kept when only one or two are, in the binary and in the ASCII
\* decode path
C21_DropsOnlyAllOriginTriangles ==
  /\ (plyCall.stage = "decoded" /\ ~CutShort(plyCall.file) /\ ~plyCall.geometry.threw
        /\ OnlyTriangleRecords(plyCall.file)) =>
       LET points == plyCall.geometry.points
       IN plyCall.geometry.indices
            = KeptTriangles(plyCall.file,
                            [v \in 1..(Len(points) \div 3) |-> IsOrigin(points, v - 1)], 0)
  /\ (asciiCall.stage = "decoded" /\ OnlyTriangleLines(asciiCall.file)) =>
       LET points == asciiCall.geometry.points
       IN asciiCall.geometry.indices
            = KeptTriangleLines(
                Slice(asciiCall.file.lines, asciiCall.file.vertexCount, Len(asciiCall.file.lines)),
                [v \in 1..(Len(points) \div 3) |->
                   points[3 * v - 2] = 0 /\ points[3 * v - 1] = 0 /\ points[3 * v] = 0])

\* the face loop from face i on when a record with a vertex count in 0..9 other than 3 is
\* skipped and only a count outside 0..9 or the end of the buffer ends the loop
RECURSIVE SkippingFaces(_, _, _, _, _)
SkippingFaces(view, h, faceCount, i, d) ==
  IF i >= faceCount \/ d.offset + 1 > Len(view) THEN d
  ELSE
    LET numVerts == view[d.offset + 1]
        offset == d.offset + 1
        v0 == Int32At(view, offset)
        v1 == Int32At(view, offset + 4)
        v2 == Int32At(view, offset + 8)
        skipped == offset + numVerts * 4 + h.faceExtraBytes
    IN IF numVerts = 3 /\ offset + 12 + h.faceExtraBytes <= Len(view)
       THEN SkippingFaces(view, h, faceCount, i + 1,
                          [ d EXCEPT !.indices = IF AcceptsTriangle(d.points, v0, v1, v2)
                                                 THEN @ \o <<v0, v1, v2>> ELSE @,
                                     !.offset = offset + 12 + h.faceExtraBytes ])
       ELSE IF numVerts >= 0 /\ numVerts < 10 /\ skipped <= Len(view)
       THEN SkippingFaces(view, h, faceCount, i + 1, [ d EXCEPT !.offset = skipped ])
       ELSE d

\* C22: a binary face record whose vertex count is in 0..9 and not 3 is skipped with its
\* indices and extra bytes and parsing continues with the next record; only a count
\* outside 0..9 or the end of the buffer ends face parsing, so a count of 0 does not
C22_SkipsEveryCountBelowTen ==
  (plyCall.stage = "decoded" /\ ~plyCall.geometry.threw /\ plyCall.file.faceCount > 0) =>
    plyCall.geometry.indices
      = SkippingFaces(plyCall.file.data, plyCall.header, plyCall.file.faceCount, 0,
                      [ DecodeStart EXCEPT
                          !.points = plyCall.geometry.points,
                          !.offset = (Len(plyCall.geometry.points) \div 3)
                                       * plyCall.header.bytesPerVertex ]).indices

\* every face index of a returned geometry names a decoded vertex, three per triangle
IndicesInRange(geometry) ==
  /\ Len(geometry.indices) % 3 = 0
  /\ \A k \in 1..Len(geometry.indices) :
       geometry.indices[k] >= 0 /\ geometry.indices[k] <= (Len(geometry.points) \div 3) - 1

\* C23: every face index the binary or the ASCII decoder returns lies in [0, n-1], n the
\* number of vertices actually decoded, and the index array holds three indices per
\* triangle, also when the vertex block is cut short or vertex lines are skipped
C23_IndicesNameDecodedVertices ==
  /\ plyCall.stage = "decoded" => IndicesInRange(plyCall.geometry)
  /\ asciiCall.stage = "decoded" => IndicesInRange(asciiCall.geometry)

\* an ASCII file with a skipped vertex line whose triangle over the remaining vertices
\* is returned
C23_Witness ==
  /\ asciiCall.stage = "decoded"
  /\ Len(asciiCall.geometry.points) \div 3 < asciiCall.file.vertexCount
  /\ Len(asciiCall.geometry.points) > 0
  /\ asciiCall.geometry.indices # << >>

\* ------------------------------------------------ claims: multiscan converter
\* the array [0, 0, 0, 1]
ZeroZeroZeroOne ==
  << [ sign |-> 0, num |-> 0, den |-> 1 ], [ sign |-> 0, num |-> 0, den |-> 1 ],
     [ sign |-> 0, num |-> 0, den |-> 1 ], [ sign |-> 1, num |-> 1, den |-> 1 ] >>

\* the objects of the converted annotations, by their position in the file
Converted == 1..Len(convertCall.graph.objects)
AxesOf(i) == convertCall.data.objects[i].obb.normalizedAxes
RotationOf(i) == convertCall.graph.objects[i].bbox.rotation

NineEntries(axes) ==
  LET m == RotationPart(axes)
  IN << m.m00, m.m01, m.m02, m.m10, m.m11, m.m12, m.m20, m.m21, m.m22 >>

AllFinite(axes) == \A k \in 1..9 : NineEntries(axes)[k].kind = "number"

\* the matrix is finite and one of the components the branches compute from it is not
ComputesNonFinite(axes) ==
  /\ AllFinite(axes)
  /\ \E k \in 1..4 : QuaternionOfMatrix(RotationPart(axes))[k].den = 0

\* C14: the conversion of a rotation matrix returns (0, 0, 0, 1) for the identity matrix,
\* whenever one of the nine entries is not finite, and whenever a computed component is
\* not finite
C14_IdentityFallback ==
  convertCall.stage = "converted" =>
    \A i \in Converted :
      /\ NineEntries(AxesOf(i)) = Diagonal(1, 1, 1) => RotationOf(i) = ZeroZeroZeroOne
      /\ ~AllFinite(AxesOf(i)) => RotationOf(i) = ZeroZeroZeroOne
      /\ ComputesNonFinite(AxesOf(i)) => RotationOf(i) = ZeroZeroZeroOne

\* a finite matrix whose sums overflow has been converted to (0, 0, 0, 1)
C14_Witness ==
  /\ convertCall.stage = "converted"
  /\ \E i \in Converted : ComputesNonFinite(AxesOf(i)) /\ RotationOf(i) = ZeroZeroZeroOne

\* qx^2 + qy^2 + qz^2 + qw^2 = 1, each square being num / den
IsUnitQuaternion(q) ==
  /\ \A k \in 1..4 : q[k].den > 0
  /\ q[1].num * q[2].den * q[3].den * q[4].den + q[2].num * q[1].den * q[3].den * q[4].den
       + q[3].num * q[1].den * q[2].den * q[4].den + q[4].num * q[1].den * q[2].den * q[3].den
     = q[1].den * q[2].den * q[3].den * q[4].den

\* C15: every bbox.rotation the conversion produces is a unit quaternion, for every finite
\* matrix, the zero matrix and scaled matrices included
C15_RotationIsUnit ==
  convertCall.stage = "converted" =>
    \A i \in Converted : AllFinite(AxesOf(i)) => IsUnitQuaternion(RotationOf(i))

\* the edge 'a on top of b' is among the converted relationships
OnTopOf(a, b) ==
  \E r \in 1..Len(convertCall.graph.relationships) :
    convertCall.graph.relationships[r]
      = [ subject |-> convertCall.graph.objects[a].id, predicate |-> "on top of",
          object |-> convertCall.graph.objects[b].id ]

\* a's centre is higher than b's by more than 0.05 and at most 0.5, the gap between the
\* facing surfaces (the separation of the centres less both vertical half-extents) is
\* under 0.1, and the centres are horizontally closer than the half-extents add up to
RestsOn(a, b) ==
  LET A == convertCall.graph.objects[a].bbox
      B == convertCall.graph.objects[b].bbox
      d == A.center[2] - B.center[2]
  IN /\ HorizontallyClose(A, B)
     /\ d - (A.half_dims[2] + B.half_dims[2]) < 10
     /\ 5 < d
     /\ d <= 50

\* C16: 'on top of' is emitted for a pair exactly when the boxes are horizontally close,
\* the vertical surface gap is under 0.1 and the higher centre is more than 0.05 and at
\* most 0.5 above the lower; the higher-centred object is the subject
C16_OnTopOfExactlyWhenResting ==
  convertCall.stage = "converted" =>
    \A a, b \in Converted : a # b => (OnTopOf(a, b) <=> RestsOn(a, b))

\* ------------------------------------------------ claims: relationship panel
Rendered == displayCall.stage = "rendered" /\ displayCall.panel.listed
QueriedRelationships == displayCall.graph.relationships
\* the positions, counted from 0, of the relationships listed under each heading
InOutgoing == { displayCall.panel.outgoing[i].relIndex : i \in 1..Len(displayCall.panel.outgoing) }
InBetweenList ==
  { displayCall.panel.inBetween[i].relIndex : i \in 1..Len(displayCall.panel.inBetween) }

\* the name holds 'between', in any case of its letters
BetweenNames == { "between", "in between", "In Between", "BETWEEN" }

\* no type filter hides the relationship
NotFilteredOut(rel) ==
  displayCall.selectedRelTypeFilters = {} \/ rel.name \in displayCall.selectedRelTypeFilters

\* C17: a relationship is classified 'in-between' for the queried object exactly when the
\* object is its subject, its predicate contains 'between' and it has at least two
\* recipients (and no type filter hides it); its first two recipients are shown as the
\* neighbours; queried from an object that is only a recipient it is listed nowhere
C17_InBetweenClassification ==
  Rendered =>
    /\ \A k \in 1..Len(QueriedRelationships) :
         LET rel == QueriedRelationships[k]
         IN /\ (k - 1) \in InBetweenList
                 <=> /\ rel.subject_id = displayCall.objectId
                     /\ rel.name \in BetweenNames
                     /\ Len(rel.recipient_id) >= 2
                     /\ NotFilteredOut(rel)
            /\ rel.subject_id # displayCall.objectId
                 => (k - 1) \notin InBetweenList /\ (k - 1) \notin InOutgoing
    /\ \A i \in 1..Len(displayCall.panel.inBetween) :
         LET item == displayCall.panel.inBetween[i]
             rel == QueriedRelationships[item.relIndex + 1]
         IN item.target1 = rel.recipient_id[1] /\ item.target2 = rel.recipient_id[2]

\* an in-between relationship with three recipients is listed for its subject with the
\* first two as neighbours, beside a relationship the queried object is only a recipient
\* of, which is listed nowhere
C17_Witness ==
  /\ Rendered
  /\ \E i \in 1..Len(displayCall.panel.inBetween) :
       /\ displayCall.panel.inBetween[i].target1 = 3
       /\ displayCall.panel.inBetween[i].target2 = 1
  /\ \E k \in 1..Len(QueriedRelationships) :
       /\ QueriedRelationships[k].subject_id # displayCall.objectId
       /\ \E j \in 1..Len(QueriedRelationships[k].recipient_id) :
            QueriedRelationships[k].recipient_id[j] = displayCall.objectId
       /\ (k - 1) \notin InBetweenList \cup InOutgoing

\* C18: the outgoing list holds exactly the relationships whose subject is the queried
\* object and whose predicate is not a 'between' predicate, whatever the number of
\* recipients; the outgoing and in-between lists are disjoint
C18_OutgoingExcludesBetween ==
  Rendered /\ displayCall.selectedRelTypeFilters = {} =>
    /\ \A k \in 1..Len(QueriedRelationships) :
         (k - 1) \in InOutgoing
           <=> /\ QueriedRelationships[k].subject_id = displayCall.objectId
               /\ QueriedRelationships[k].name \notin BetweenNames
    /\ InOutgoing \cap InBetweenList = {}

\* --------------------------------------------------------- claims: scene load
\* C19: a scene load that fails affects no other state: after the failed loadScene(s),
\* currentSceneId and currentDataset equal their values before the call, and the loaded
\* scene graph and the annotation stores are what they were
C19_FailedLoadChangesNothing ==
  [][\A i \in 1..MaxPending :
       loadSceneFailed(i) =>
         /\ currentSceneId' = beforeLoad[i].currentSceneId
         /\ currentDataset' = beforeLoad[i].currentDataset
         /\ sceneGraphData' = sceneGraphData
         /\ stores' = stores]_vars

\* ------------------------------------------------- claims: added relationships
\* C20: for every subject, every non-empty predicate and every target object of the scene,
\* the object whose id is 0 included, addRelationship appends exactly one entry to the
\* added-relationship list and changes no other annotation store
C20_AddRelationshipAppends ==
  \A subjectId \in ObjectIds, objectId \in ObjectIds, predicate \in PredicateInputs :
    /\ predicate # ""
    /\ annotationMode = "relationship"
    /\ selectedObjectId = subjectId
    /\ FindObject(sceneGraphData, subjectId) # 0
    /\ objectId # subjectId
    /\ FindObject(sceneGraphData, objectId) # 0
    /\ Len(additionalRelationships) < MaxAdded
    => ENABLED ( /\ addRelationship(subjectId, objectId, predicate)
                 /\ additionalRelationships'
                      = Append(additionalRelationships,
                               AddedRelationship(subjectId, objectId, predicate))
                 /\ UNCHANGED << similarityAnnotations, attributeValidations,
                                 additionalAttributes, relationshipValidations >> )
\* ------------------------------------------------ claims: point cloud display
\* the points that are not the exact origin and have no coordinate beyond 100 in absolute
\* value, by the position of their x in the position array
PlausiblePoints(points) ==
  { i \in 1..Len(points) :
      /\ i % 3 = 1
      /\ ~(points[i] = 0 /\ points[i + 1] = 0 /\ points[i + 2] = 0)
      /\ \A a \in 0..2 : Abs(points[i + a]) <= 100 }

\* C24: a point is used for the bounds exactly when it is not the exact origin and none of
\* its coordinates exceeds 100 in absolute value, a coordinate of exactly 100 or -100
\* included; the valid-point count is the number of points used and min <= center <= max
\* on each axis
C24_BoundsUsePointsUpToHundred ==
  (cloudCall.stage = "loaded" /\ cloudCall.view.drawn) =>
    LET points == cloudCall.view.position
        used == PlausiblePoints(points)
        view == cloudCall.view
    IN /\ view.validPointCount = Cardinality(used)
       /\ view.framed = (used # {})
       /\ view.framed =>
            \A a \in 1..3 :
              /\ view.min[a] = Least({ points[i + a - 1] : i \in used })
              /\ view.max[a] = Greatest({ points[i + a - 1] : i \in used })
              /\ 2 * view.min[a] <= view.twiceCenter[a]
              /\ view.twiceCenter[a] <= 2 * view.max[a]

\* C25: geometry with face indices is never sampled down: whenever the decoder returned a
\* non-empty face-index array, loadPointCloud is passed the full decoded point array, and
\* every face index names the vertex it names in the file
C25_MeshesAreNotSampled ==
  (cloudCall.stage = "loaded" /\ cloudCall.pcData.indices # << >>) =>
    /\ cloudCall.passed.points = cloudCall.pcData.points
    /\ cloudCall.passed.indices = cloudCall.pcData.indices
    /\ cloudCall.view.position = cloudCall.pcData.points
    /\ cloudCall.view.index = cloudCall.pcData.indices

\* a mesh of more than maxPoints vertices, one of its indices beyond maxPoints, drawn in
\* full
C25_Witness ==
  /\ cloudCall.stage = "loaded"
  /\ cloudCall.pcData.indices # << >>
  /\ Len(cloudCall.pcData.points) \div 3 > 2 * maxPoints
  /\ \E k \in 1..Len(cloudCall.pcData.indices) : cloudCall.pcData.indices[k] > maxPoints
  /\ cloudCall.view.mesh
  /\ cloudCall.view.position = cloudCall.pcData.points

\* a decoder returns face indices only together with hasFaces
IndicesImplyHasFaces ==
  /\ plyCall.stage = "decoded" => (plyCall.geometry.indices # << >> => plyCall.geometry.hasFaces)
  /\ asciiCall.stage = "decoded" =>
       (asciiCall.geometry.indices # << >> => asciiCall.geometry.hasFaces)

\* the vertices a cloud of numVertices is sampled down to are to be 0, stride, 2 * stride,
\* ... with stride floor(numVertices / maxPoints), at most maxPoints of them
RECURSIVE Strided(_, _, _)
Strided(v, stride, numVertices) ==
  IF v >= numVertices THEN << >> ELSE << v >> \o Strided(v + stride, stride, numVertices)

\* C30: sampling a faceless cloud of n > maxPoints vertices down yields at most maxPoints
\* vertices for every n; the stride floor(n / maxPoints) is at least 1, and the kept
\* vertices are those at 0, stride, 2 * stride, ..., each with its own color
C30_SamplingKeepsAtMostMaxPoints ==
  (cloudCall.stage = "loaded" /\ ~cloudCall.pcData.hasFaces
     /\ Len(cloudCall.pcData.points) \div 3 > maxPoints
     /\ (cloudCall.pcData.hasColors =>
           Len(cloudCall.pcData.colors) = Len(cloudCall.pcData.points))) =>
    LET n == Len(cloudCall.pcData.points) \div 3
        stride == n \div maxPoints
        kept == Strided(0, stride, n)
        passed == cloudCall.passed
    IN /\ stride >= 1
       /\ Len(passed.points) = 3 * Len(kept)
       /\ \A k \in 1..Len(kept) : \A a \in 1..3 :
            /\ passed.points[3 * (k - 1) + a] = cloudCall.pcData.points[3 * kept[k] + a]
            /\ cloudCall.pcData.hasColors =>
                 passed.colors[3 * (k - 1) + a] = cloudCall.pcData.colors[3 * kept[k] + a]
       /\ Len(passed.points) \div 3 <= maxPoints

\* ------------------------------------------------ claims: relationship validation
\* the exported relationship item of position i carries index i and the value stored under
\* key i, null when there is none
ExportsByPosition ==
  (sceneGraphData # NoGraph) =>
    LET items == CurrentExport.relationships.predicted.items
    IN /\ Len(items) = Len(sceneGraphData.relationships)
       /\ \A i \in 0..(Len(items) - 1) :
            /\ items[i + 1].index = i
            /\ items[i + 1].validation
                 = IF i \in DOMAIN relationshipValidations
                   THEN relationshipValidations[i] ELSE NULL

\* a step of validateRelationship(relIndex, status) deletes key relIndex when it holds
\* status, sets it to status otherwise, and leaves every other key as it is
TogglesOnlyKey(relIndex, status) ==
  /\ IF relIndex \in DOMAIN relationshipValidations
          /\ relationshipValidations[relIndex] = status
     THEN relIndex \notin DOMAIN relationshipValidations'
     ELSE relIndex \in DOMAIN relationshipValidations'
            /\ relationshipValidations'[relIndex] = status
  /\ \A k \in (DOMAIN relationshipValidations \cup DOMAIN relationshipValidations')
                \ {relIndex} :
       /\ k \in DOMAIN relationshipValidations /\ k \in DOMAIN relationshipValidations'
       /\ relationshipValidations'[k] = relationshipValidations[k]

\* an import that goes on leaves the validation of each item under the item's index and
\* nothing else in the relationship map
StoresUnderIndex(data) ==
  LET items == data.relationships.predicted.items
      validated == { i \in 1..Len(items) : items[i].validation # NULL }
  IN /\ DOMAIN relationshipValidations' = { items[i].index : i \in validated }
     /\ \A i \in validated : relationshipValidations'[items[i].index] = items[i].validation

\* C26: relationship validation is keyed by position: validateRelationship(i, status)
\* toggles only key i of the relationship map, by the toggle rule of the attributes; the
\* exported item with index i carries the value under key i, null when absent, for every
\* position of the loaded relationship array; an import stores each item's validation
\* under that item's index
C26_RelationshipsKeyedByPosition ==
  /\ []ExportsByPosition
  /\ [][/\ \A relIndex \in RelationshipIndexes, status \in Statuses :
             validateRelationship(relIndex, status) => TogglesOnlyKey(relIndex, status)
        /\ stores' # stores =>
             \A data \in Documents, confirmed \in BOOLEAN :
               (ImportProceeds(data, sceneGraphData, confirmed)
                  /\ processAnnotationFile(data, confirmed))
                 => StoresUnderIndex(data)]_vars

\* relationship mode on the scene of two relationships, an object selected, the second
\* relationship validated and the first not, in a session that has imported
C26_Witness ==
  /\ annotationMode = "relationship"
  /\ selectedObjectId # NoObject
  /\ sceneGraphData # NoGraph
  /\ Len(sceneGraphData.relationships) = 2
  /\ DOMAIN relationshipValidations = {1}
  /\ additionalRelationships # << >>
  /\ CurrentExport.relationships.predicted.items[2].validation # NULL

\* ------------------------------------------------ claims: annotation mode
\* the mode setAnnotationMode(m) is to leave active: m when it differs from the active
\* mode, Off when it is the active mode
RequestedMode(m) == IF m # annotationMode THEN m ELSE NULL

\* C27: the annotation mode is always exactly one of Off, Similarity, Attribute and
\* Relationship and starts as Off; setAnnotationMode(m) makes m the active mode when m
\* differs from the active mode and switches to Off when m is the active mode, and
\* nothing else changes the mode
C27_OneModeAtATime ==
  /\ annotationMode = NULL
  /\ [](/\ annotationMode \in Modes
        /\ \A m \in Modes :
             ENABLED (setAnnotationMode(m) /\ annotationMode' = RequestedMode(m)))
  /\ [][/\ \A m \in Modes : setAnnotationMode(m) => annotationMode' = RequestedMode(m)
        /\ annotationMode' # annotationMode => \E m \in Modes : setAnnotationMode(m)]_vars

\* relationship mode is active while a scene load is pending, in a session on a loaded
\* scene that has imported its annotations
C27_Witness ==
  /\ annotationMode = "relationship"
  /\ sceneGraphData # NoGraph
  /\ loading # << >>
  /\ similarityAnnotations # << >>
  /\ attributeValidations # EmptyMap

\* ------------------------------------------------ claims: exported summaries
\* the items of a section whose validation is status
ItemsWith(items, status) == Cardinality({ i \in 1..Len(items) : items[i].validation = status })

\* the correct and incorrect counts of a section's summary are the counts of its items
SummaryMatchesItems(section) ==
  /\ section.summary.correct = ItemsWith(section.predicted.items, "correct")
  /\ section.summary.incorrect = ItemsWith(section.predicted.items, "incorrect")

\* C29: every document exportAnnotations produces is consistent in itself, also after an
\* import of annotations exported for another scene: the correct and incorrect counts of
\* attributes.summary and of relationships.summary are the numbers of predicted items of
\* the section with that validation
C29_SummaryCountsItems ==
  ~ExportRefused =>
    /\ SummaryMatchesItems(CurrentExport.attributes)
    /\ SummaryMatchesItems(CurrentExport.relationships)
\* ------------------------------------------------ claims: overlapping scene loads
\* C28: when two loadScene calls for different scenes overlap, then once both have
\* finished the loaded scene graph is that of the last requested scene, the scene
\* currentSceneId names, whichever fetch completes first
C28_LastRequestedSceneShown ==
  [][((\E i \in 1..MaxOverlapping : loadSceneLoaded(i)) /\ loading' = << >>)
       => sceneGraphData'.id = currentSceneId']_vars
====
